---- MODULE Spec2Model ----
(***************************************************************************)
(* A model of the NES emulator core of acr92/nes_emulator_rs: the joypad   *)
(* shift register, the PPU dot/scanline counter with its vblank interrupt, *)
(* the bus (address decoding, the 1:3 CPU/PPU clock ratio, the per-frame   *)
(* callback) and the CPU run loop that polls the interrupt.                *)
(*                                                                         *)
(* Hexadecimal constants of the source are written in decimal, with the    *)
(* source's spelling in a comment.                                         *)
(***************************************************************************)
EXTENDS Integers, Sequences, FiniteSets, TLC

VARIABLES
    joypad,     \* emulator/src/joypad.rs  struct Joypad
    ppu,        \* ppu/src/lib.rs          struct PPU (the fields the operations below use)
    bus,        \* emulator/src/bus.rs     struct Bus: cycles, cpu_vram, rom
    cpu,        \* emulator/src/cpu.rs     struct CPU: the program counter and the run loop's position
    build,      \* the build profile: TRUE when integer overflow panics (debug), FALSE when it wraps (release)
    fatal,      \* "none", or the panic that ended the program
    ret,        \* the value returned by the last operation that returns one
    jpobs,      \* observer of the joypad protocol
    frobs,      \* observer of frames: dots, wraps, callbacks
    cpuobs,     \* observer of the run loop: instructions, interrupt entries
    memobs      \* observer of bus accesses

vars == <<joypad, ppu, bus, cpu, build, fatal, ret, jpobs, frobs, cpuobs, memobs>>

(***************************************************************************)
(* Bit operations on naturals, as the source's &, |, <<, >> on unsigned    *)
(* integers.                                                               *)
(***************************************************************************)
\* & and | bit by bit; BitAnd and BitOr take a byte at a time through the
\* tables of the results on bytes
RECURSIVE BitAndBits(_, _)
BitAndBits(a, b) ==
    IF a = 0 \/ b = 0 THEN 0
    ELSE (a % 2) * (b % 2) + 2 * BitAndBits(a \div 2, b \div 2)

ByteAnd == [a \in 0..255 |-> [b \in 0..255 |-> BitAndBits(a, b)]]

RECURSIVE BitAnd(_, _)
BitAnd(a, b) ==
    IF a = 0 \/ b = 0 THEN 0
    ELSE ByteAnd[a % 256][b % 256] + 256 * BitAnd(a \div 256, b \div 256)

RECURSIVE BitOrBits(_, _)
BitOrBits(a, b) ==
    IF a = 0 THEN b
    ELSE IF b = 0 THEN a
    ELSE (IF a % 2 = 1 \/ b % 2 = 1 THEN 1 ELSE 0) + 2 * BitOrBits(a \div 2, b \div 2)

ByteOr == [a \in 0..255 |-> [b \in 0..255 |-> BitOrBits(a, b)]]

RECURSIVE BitOr(_, _)
BitOr(a, b) ==
    IF a = 0 THEN b
    ELSE IF b = 0 THEN a
    ELSE ByteOr[a % 256][b % 256] + 256 * BitOr(a \div 256, b \div 256)

Pow2(n) == 2 ^ n

Shl(a, n) == a * Pow2(n)
Shr(a, n) == a \div Pow2(n)

U8 == 256
U16 == 65536

BitNot8(a) == 255 - a

(***************************************************************************)
(* Joypad (emulator/src/joypad.rs)                                         *)
(***************************************************************************)
\* JoypadButton bit masks
BUTTON_A == 1
BUTTON_B == 2
SELECT == 4
START == 8
UP == 16
DOWN == 32
LEFT == 64
RIGHT == 128

JoypadButtons == {BUTTON_A, BUTTON_B, SELECT, START, UP, DOWN, LEFT, RIGHT}

Joypad_new == [strobe |-> FALSE, button_index |-> 0, button_status |-> 0]

Joypad_write_nostrobe(j, data) ==
    [j EXCEPT !.strobe = FALSE,
              !.button_index = IF BitAnd(data, 1) = 1 THEN 0 ELSE @]

Joypad_write(j, data) ==
    LET strobe == BitAnd(data, 1) = 1
    IN  [j EXCEPT !.strobe = strobe,
                  !.button_index = IF strobe THEN 0 ELSE @]

\* the result of read(): the returned byte and the joypad afterwards
Joypad_read_reversed(j) ==
    IF j.button_index > 7
    THEN [ret |-> 1, joypad |-> j]
    ELSE LET response == Shr(BitAnd(j.button_status, Shl(1, 7 - j.button_index)),
                             7 - j.button_index)
         IN  [ret |-> response,
              joypad |-> IF ~j.strobe /\ j.button_index <= 7
                         THEN [j EXCEPT !.button_index = @ + 1]
                         ELSE j]

\* read() advancing the index whatever the strobe
Joypad_read_advancing(j) ==
    IF j.button_index > 7
    THEN [ret |-> 1, joypad |-> j]
    ELSE [ret |-> Shr(BitAnd(j.button_status, Shl(1, j.button_index)), j.button_index),
          joypad |-> [j EXCEPT !.button_index = @ + 1]]

Joypad_read(j) ==
    IF j.button_index > 7
    THEN [ret |-> 1, joypad |-> j]
    ELSE LET response == Shr(BitAnd(j.button_status, Shl(1, j.button_index)),
                             j.button_index)
         IN  [ret |-> response,
              joypad |-> IF ~j.strobe /\ j.button_index <= 7
                         THEN [j EXCEPT !.button_index = @ + 1]
                         ELSE j]

Joypad_set_pressed(j, button) ==
    [j EXCEPT !.button_status = BitOr(@, button)]

Joypad_set_released(j, button) ==
    [j EXCEPT !.button_status = BitAnd(@, BitNot8(button))]

(***************************************************************************)
(* Option<u8> is a sequence of length at most one.                         *)
(***************************************************************************)
None == <<>>
Some(x) == <<x>>

(***************************************************************************)
(* Arrays that start zeroed (vram, palette_table, oam_data, cpu_vram,      *)
(* chr_rom of new_empty_rom) are kept as the finite map of their non-zero  *)
(* cells.                                                                  *)
(***************************************************************************)
ZeroMem == [a \in {} |-> 0]
Mem_get(m, a) == IF a \in DOMAIN m THEN m[a] ELSE 0
Mem_set(m, a, v) ==
    IF v = 0
    THEN [x \in (DOMAIN m) \ {a} |-> m[x]]
    ELSE [x \in (DOMAIN m) \cup {a} |-> IF x = a THEN v ELSE m[x]]

(***************************************************************************)
(* PPU registers (ppu/src/registers, ppu/src/register.rs)                  *)
(***************************************************************************)
NAMETABLE1 == 1                 \* ControlRegister 0b00000001
NAMETABLE2 == 2                 \* ControlRegister 0b00000010
VRAM_ADD_INCREMENT == 4         \* ControlRegister 0b00000100
GENERATE_NMI_AT_VBI == 128      \* ControlRegister 0b10000000
GRAYSCALE == 1                  \* MaskFlags       0b00000001
SHOW_BACKGROUND == 8            \* MaskFlags       0b00001000
SHOW_SPRITES == 16              \* MaskFlags       0b00010000
VERTICAL_BLANK_STARTED == 128   \* StatusRegister  0b10000000
SPRITE_ZERO_HIT == 64           \* StatusRegister  0b01000000
SPRITE_OVERFLOW == 32           \* StatusRegister  0b00100000

contains(bits, flag) == BitAnd(bits, flag) = flag
set(bits, flag, on) == IF on THEN BitOr(bits, flag) ELSE BitAnd(bits, BitNot8(flag))

SPRITE_PATTERN_ADDR == 8        \* ControlRegister 0b00001000
BACKGROUND_PATTERN_ADDR == 16   \* ControlRegister 0b00010000
SPRITE_SIZE == 32               \* ControlRegister 0b00100000
sprite_pattern_table_address(control) ==
    IF contains(control, SPRITE_PATTERN_ADDR) THEN 4096 ELSE 0
sprite_size(control) == IF contains(control, SPRITE_SIZE) THEN 16 ELSE 8
generate_vblank_nmi(control) == contains(control, GENERATE_NMI_AT_VBI)
vram_address_increment(control) == IF contains(control, VRAM_ADD_INCREMENT) THEN 32 ELSE 1
is_grayscale(mask) == contains(mask, GRAYSCALE)
show_background(mask) == contains(mask, SHOW_BACKGROUND)
show_sprites(mask) == contains(mask, SHOW_SPRITES)

(***************************************************************************)
(* LoopyRegister (ppu/src/registers/loopy.rs)                              *)
(***************************************************************************)
LoopyRegister_new ==
    [coarse_x |-> 0, coarse_y |-> 0, nametable_x |-> 0, nametable_y |-> 0,
     fine_y |-> 0, unused |-> 0]

set_coarse_x(r, value) == [r EXCEPT !.coarse_x = BitAnd(value, 31)]
set_coarse_y(r, value) == [r EXCEPT !.coarse_y = BitAnd(value, 31)]
set_nametable_x(r, value) == [r EXCEPT !.nametable_x = BitAnd(value, 1)]
set_nametable_y(r, value) == [r EXCEPT !.nametable_y = BitAnd(value, 1)]
set_fine_y(r, value) == [r EXCEPT !.fine_y = BitAnd(value, 7)]
set_unused(r, value) == [r EXCEPT !.unused = BitAnd(value, 1)]
get_unused(r) == r.unused

set_bits(r, value) ==
    set_fine_y(
      set_nametable_y(
        set_nametable_x(
          set_coarse_y(
            set_coarse_x(r, BitAnd(value, 31)),
            BitAnd(Shr(value, 5), 31)),
          BitAnd(Shr(value, 10), 1)),
        BitAnd(Shr(value, 11), 1)),
      BitAnd(Shr(value, 12), 7))

get_bits(r) ==
    BitOr(BitOr(BitOr(BitOr(r.coarse_x, Shl(r.coarse_y, 5)),
                      Shl(r.nametable_x, 10)),
                Shl(r.nametable_y, 11)),
          Shl(r.fine_y, 12))

(***************************************************************************)
(* PPU (ppu/src/lib.rs).  The record holds the fields that the dot         *)
(* counter, the status flags, the interrupt and the register window use.   *)
(* bg_next_tile_id is the name table byte the background fetch keeps for   *)
(* the address of its pattern reads.  The attribute and pattern bytes, the *)
(* background and sprite shifters and the frame buffer are written by tick *)
(* but never read by the counters, the flags, the interrupt or an address  *)
(* computation, and are not part of the record.                            *)
(***************************************************************************)
CHR_ROM_EMPTY_LEN == 2048       \* new_empty_rom: vec![0; 2048]

PPU_new(chr_rom_len, mirroring) ==
    [chr_rom_len |-> chr_rom_len,
     chr_rom |-> ZeroMem,
     palette_table |-> ZeroMem,
     vram |-> ZeroMem,
     oam_data |-> ZeroMem,
     mirroring |-> mirroring,
     control |-> 0,
     mask |-> 0,
     status |-> 0,
     oam_address |-> 0,
     vram_addr |-> LoopyRegister_new,
     tram_addr |-> LoopyRegister_new,
     internal_data_buf |-> 0,
     scanline |-> 0,
     cycles |-> 0,
     nmi_interrupt |-> None,
     address_latch |-> 0,
     fine_x |-> 0,
     bg_next_tile_id |-> 0,
     sprite_scanline |-> <<>>]

PPU_new_empty_rom == PPU_new(CHR_ROM_EMPTY_LEN, "Horizontal")

(***************************************************************************)
(* The PPU's memory and its register window (ppu/src/lib.rs 522-744).      *)
(* Each operation yields the PPU afterwards, the byte returned (0 when     *)
(* none) and "none" or the panic that ended it.                            *)
(***************************************************************************)
Ok(p, r) == [ppu |-> p, ret |-> r, fatal |-> "none"]
Panic(p, msg) == [ppu |-> p, ret |-> 0, fatal |-> msg]

\* PPU_REGISTERS (ppu/src/register.rs): address -> field, access
PPU_REGISTERS ==
    [a \in {8192, 8193, 8194, 8195, 8196, 8197, 8198, 8199, 16404} |->
        CASE a = 8192  -> [field |-> "Control",    access |-> "WriteOnly"]   \* 0x2000
          [] a = 8193  -> [field |-> "Mask",       access |-> "WriteOnly"]   \* 0x2001
          [] a = 8194  -> [field |-> "Status",     access |-> "ReadOnly"]    \* 0x2002
          [] a = 8195  -> [field |-> "OAMAddress", access |-> "WriteOnly"]   \* 0x2003
          [] a = 8196  -> [field |-> "OAMData",    access |-> "ReadWrite"]   \* 0x2004
          [] a = 8197  -> [field |-> "Scroll",     access |-> "WriteOnly"]   \* 0x2005
          [] a = 8198  -> [field |-> "Address",    access |-> "WriteOnly"]   \* 0x2006
          [] a = 8199  -> [field |-> "Data",       access |-> "ReadWrite"]   \* 0x2007
          [] a = 16404 -> [field |-> "OAMDMA",     access |-> "WriteOnly"]]  \* 0x4014

is_read_allowed(register) == register.access \in {"ReadWrite", "ReadOnly"}
is_write_allowed(register) == register.access \in {"ReadWrite", "WriteOnly"}

PALETTE_RAM_START == 16128      \* 0x3F00

\* mirror_vram_addr folding the name tables of either arrangement in pairs
mirror_vram_addr_paired(p, addr) ==
    LET vram_index == BitAnd(addr, 12287) - 8192
    IN  IF vram_index \div 1024 \in {2, 3} THEN vram_index - 2048 ELSE vram_index

mirror_vram_addr(p, addr) ==
    LET mirrored_vram == BitAnd(addr, 12287)        \* 0b10111111111111
        vram_index == mirrored_vram - 8192          \* 0x2000
        name_table == vram_index \div 1024          \* 0x400
    IN  IF p.mirroring = "Vertical" /\ name_table \in {2, 3} THEN vram_index - 2048
        ELSE IF p.mirroring = "Horizontal" /\ name_table = 2 THEN vram_index - 1024
        ELSE IF p.mirroring = "Horizontal" /\ name_table = 1 THEN vram_index - 1024
        ELSE IF p.mirroring = "Horizontal" /\ name_table = 3 THEN vram_index - 2048
        ELSE vram_index

\* the palette index of ppu_read / ppu_write
palette_index(addr) ==
    LET a == BitAnd(addr, 31)
    IN  IF a \in {16, 20, 24, 28} THEN a - 16 ELSE a

ppu_read(p, addr) ==
    IF addr <= 8191                                  \* 0x0000..=0x1FFF
    THEN IF addr < p.chr_rom_len
         THEN Ok(p, Mem_get(p.chr_rom, addr))
         ELSE Panic(p, "index out of bounds")
    ELSE IF addr <= 16127                            \* 0x2000..=0x3EFF
    THEN Ok(p, Mem_get(p.vram, mirror_vram_addr(p, addr)))
    ELSE IF addr <= 16383                            \* 0x3F00..=0x3FFF
    THEN Ok(p, BitAnd(Mem_get(p.palette_table, palette_index(addr)),
                      IF is_grayscale(p.mask) THEN 48 ELSE 63))
    ELSE Panic(p, "Unknown address")

\* lib.rs 108-171: the scroll updates of the live address register, each
\* guarded by `mask.show_sprites() || mask.show_background()`
increment_scroll_x(p) ==
    IF show_sprites(p.mask) \/ show_background(p.mask)
    THEN IF p.vram_addr.coarse_x = 31
         THEN [p EXCEPT !.vram_addr =
                  set_nametable_x(set_coarse_x(@, 0), 65535 - p.vram_addr.nametable_x)]
         ELSE [p EXCEPT !.vram_addr = set_coarse_x(@, p.vram_addr.coarse_x + 1)]
    ELSE p

increment_scroll_y(p) ==
    IF show_sprites(p.mask) \/ show_background(p.mask)
    THEN IF p.vram_addr.fine_y < 7
         THEN [p EXCEPT !.vram_addr = set_fine_y(@, p.vram_addr.fine_y + 1)]
         ELSE IF p.vram_addr.coarse_y = 29
         THEN [p EXCEPT !.vram_addr =
                  set_nametable_y(set_coarse_y(set_fine_y(@, 0), 0),
                                  65535 - p.vram_addr.nametable_y)]
         ELSE IF p.vram_addr.coarse_y = 31
         THEN [p EXCEPT !.vram_addr = set_coarse_y(set_fine_y(@, 0), 0)]
         ELSE [p EXCEPT !.vram_addr =
                  set_coarse_y(set_fine_y(@, 0), p.vram_addr.coarse_y + 1)]
    ELSE p

transfer_address_x(p) ==
    IF show_sprites(p.mask) \/ show_background(p.mask)
    THEN [p EXCEPT !.vram_addr =
             set_coarse_x(set_nametable_x(@, p.tram_addr.nametable_x), p.tram_addr.coarse_x)]
    ELSE p

transfer_address_y(p) ==
    IF show_sprites(p.mask) \/ show_background(p.mask)
    THEN [p EXCEPT !.vram_addr =
             set_coarse_y(set_nametable_y(set_fine_y(@, p.tram_addr.fine_y),
                                          p.tram_addr.nametable_y),
                          p.tram_addr.coarse_y)]
    ELSE p

\* lib.rs 235-318: the background fetches and the scroll updates of one dot,
\* in the order of the source, whatever the mask register holds (the scroll
\* updates test the mask themselves).  On the dots 2..257 and 321..337 the
\* dot's place in its group of eight selects the read of the name table byte,
\* of the attribute byte, of the two pattern bytes, or the step of coarse x;
\* the dots 338 and 340 read the name table byte again.  A read that indexes
\* chr_rom beyond its length ends the dot in a panic.
PPU_tick_scroll(p) ==
    LET keep(q, r) == IF r.fatal # "none" THEN r ELSE Ok(q, 0)
        tile_id(q) ==
            LET got(r) ==
                    IF r.fatal # "none" THEN r
                    ELSE Ok([q EXCEPT !.bg_next_tile_id = r.ret], 0)
            IN  got(ppu_read(q, BitOr(8192, BitAnd(get_bits(q.vram_addr), 4095))))
        attrib(q) ==
            keep(q, ppu_read(q,
                BitOr(BitOr(BitOr(BitOr(9152,                         \* 0x23C0
                                        Shl(q.vram_addr.nametable_y, 11)),
                                  Shl(q.vram_addr.nametable_x, 10)),
                            Shl(Shr(q.vram_addr.coarse_y, 2), 3)),
                      Shr(q.vram_addr.coarse_x, 2))))
        pattern(q, plane) ==
            keep(q, ppu_read(q,
                Shl(IF contains(q.control, BACKGROUND_PATTERN_ADDR) THEN 1 ELSE 0, 12)
                    + Shl(q.bg_next_tile_id, 4)
                    + (q.vram_addr.fine_y + plane)))
        cycle_group == (p.cycles - 1) % 8
        fetch(q) ==
            IF (p.cycles >= 2 /\ p.cycles < 258) \/ (p.cycles >= 321 /\ p.cycles < 338)
            THEN IF cycle_group = 0 THEN tile_id(q)
                 ELSE IF cycle_group = 2 THEN attrib(q)
                 ELSE IF cycle_group = 4 THEN pattern(q, 0)
                 ELSE IF cycle_group = 6 THEN pattern(q, 8)
                 ELSE IF cycle_group = 7 THEN Ok(increment_scroll_x(q), 0)
                 ELSE Ok(q, 0)
            ELSE Ok(q, 0)
        \* the four tests that follow the fetches name dots apart from each
        \* other, and no step changes the dot
        rest(r) ==
            IF r.fatal # "none" THEN r
            ELSE IF p.cycles = 256 THEN Ok(increment_scroll_y(r.ppu), 0)
            ELSE IF p.cycles = 257 THEN Ok(transfer_address_x(r.ppu), 0)
            ELSE IF p.cycles = 338 \/ p.cycles = 340 THEN tile_id(r.ppu)
            ELSE IF p.scanline = -1 /\ p.cycles >= 280 /\ p.cycles < 305
            THEN Ok(transfer_address_y(r.ppu), 0)
            ELSE r
    IN  rest(fetch(p))

\* oam.rs 34-41: the sprite that bytes 4 * i .. 4 * i + 3 of OAM describe;
\* tile_x plays no part in the evaluation and the pattern fetch
Oam_new(oam_data, i) ==
    [tile_y |-> Mem_get(oam_data, 4 * i),
     tile_index |-> Mem_get(oam_data, 4 * i + 1),
     attributes |-> Mem_get(oam_data, 4 * i + 2)]

FLIP_SPRITE_VERTICALLY == 128   \* OAMAttribute 0b10000000
flip_vertical(oam) == contains(oam.attributes, FLIP_SPRITE_VERTICALLY)

\* lib.rs 320-336: the iterations lo .. up - 1 of the loop over the sprites
\* of OAM, split in halves; an iteration pushes a sprite with
\* 0 <= scanline - tile_y < sprite_size while fewer than 8 are kept.
\* sprite_count stays 0, so the loop never breaks.
RECURSIVE evaluate_sprites(_, _, _, _)
evaluate_sprites(p, lo, up, kept) ==
    IF up = lo + 1
    THEN LET diff == p.scanline - Mem_get(p.oam_data, 4 * lo)
         IN  IF diff >= 0 /\ diff < sprite_size(p.control) /\ Len(kept) < 8
             THEN Append(kept, Oam_new(p.oam_data, lo))
             ELSE kept
    ELSE LET rest(left) ==
                 IF Len(left) < 8
                 THEN evaluate_sprites(p, (lo + up) \div 2, up, left)
                 ELSE left
         IN  rest(evaluate_sprites(p, lo, (lo + up) \div 2, kept))

\* lib.rs 343-384: addr_lo of one sprite, or the panic of a u16 subtraction
\* that goes below zero in a build with overflow checks (without them the
\* subtraction wraps).  `scanline as u16` is 65535 on scanline -1.
sprite_addr_lo(p, oam, overflow_checks) ==
    LET scanline16 == IF p.scanline < 0 THEN p.scanline + U16 ELSE p.scanline
        sub(a, b) == IF a >= b THEN a - b ELSE IF overflow_checks THEN -1 ELSE a - b + U16
        table == sprite_pattern_table_address(p.control)
        cell == Shl(oam.tile_index, 4)
        odd_cell == Shl(BitAnd(oam.tile_index, 254) + 1, 4)
        \* `self.scanline as usize - oam.tile_y < 8`: on scanline -1 the cast
        \* is the largest usize and the difference is far above 8; with
        \* 0 <= scanline < tile_y the usize subtraction wraps to a value far
        \* above 8 without overflow checks, and with them it panics as the
        \* u16 subtraction of `row` does
        upper == p.scanline >= oam.tile_y /\ p.scanline - oam.tile_y < 8
        row == sub(scanline16, oam.tile_y)
        addr(c, r) ==
            IF r < 0 THEN [ret |-> 0, fatal |-> "attempt to subtract with overflow"]
            ELSE [ret |-> BitOr(BitOr(table, c), r), fatal |-> "none"]
        masked(r) == IF r < 0 THEN r ELSE BitAnd(r, 7)
        flipped8(r) == IF r < 0 THEN r ELSE sub(r, oam.tile_y)
        flipped16(r) == IF r < 0 THEN r ELSE masked(sub(7, r))
    IN  IF ~contains(p.control, SPRITE_SIZE)
        THEN IF ~flip_vertical(oam)
             THEN addr(cell, row)
             ELSE addr(cell, flipped8(sub(7, scanline16)))
        ELSE IF ~flip_vertical(oam)
             THEN addr(IF upper THEN cell ELSE odd_cell, masked(row))
             ELSE addr(IF upper THEN odd_cell ELSE cell, flipped16(row))

\* lib.rs 386-389: addr_hi = addr_lo + 8 and the two reads of one sprite;
\* "none", or the panic that ends them
sprite_fetch(p, oam, overflow_checks) ==
    LET second(lo, hi) ==
            IF ppu_read(p, lo).fatal # "none" THEN ppu_read(p, lo).fatal
            ELSE ppu_read(p, hi).fatal
        read(lo) ==
            IF lo.fatal # "none" THEN lo.fatal
            ELSE IF lo.ret + 8 >= U16 /\ overflow_checks THEN "attempt to add with overflow"
            ELSE second(lo.ret, (lo.ret + 8) % U16)
    IN  read(sprite_addr_lo(p, oam, overflow_checks))

\* lib.rs 340-407: the pattern fetch of the sprites of sprite_scanline, in
\* order; "none", or the panic of the first sprite whose fetch panics
PPU_tick_fetch(p, overflow_checks) ==
    LET faults == {k \in 1..Len(p.sprite_scanline) :
                      sprite_fetch(p, p.sprite_scanline[k], overflow_checks) # "none"}
    IN  IF faults = {} THEN "none"
        ELSE sprite_fetch(p, p.sprite_scanline[CHOOSE k \in faults : \A j \in faults : k <= j],
                          overflow_checks)

\* lib.rs 219-339: what one dot of the pre-render and visible scanlines does
\* to the counters, the status flags, the address register, the name table
\* byte kept for the pattern reads and the sprites of the scanline, up to
\* the sprite evaluation; "none", or the panic of a background fetch.
PPU_tick_render(p) ==
    LET skip(q) ==
            IF q.scanline = 0 /\ q.cycles = 0
            THEN [q EXCEPT !.cycles = 1]            \* "Odd Frame" cycle skip
            ELSE q
        clear(q) ==
            IF q.scanline = -1 /\ q.cycles = 1
            THEN [q EXCEPT !.status =
                      set(set(set(@, VERTICAL_BLANK_STARTED, FALSE),
                              SPRITE_OVERFLOW, FALSE),
                          SPRITE_ZERO_HIT, FALSE)]
            ELSE q
        \* sprite evaluation: sprite_count is declared 0 and never incremented
        sprite_count == 0
        evaluate(r) ==
            IF r.fatal # "none" THEN r
            ELSE IF r.ppu.cycles = 257 /\ r.ppu.scanline >= 0
            THEN Ok([r.ppu EXCEPT !.status = set(@, SPRITE_OVERFLOW, sprite_count > 8),
                                  !.sprite_scanline = evaluate_sprites(r.ppu, 0, 64, <<>>)], 0)
            ELSE r
    IN  evaluate(PPU_tick_scroll(clear(skip(p))))

\* lib.rs 414-423: the start of vertical blank
PPU_tick_vblank(p) ==
    IF p.scanline >= 241 /\ p.scanline < 261 /\ p.scanline = 241 /\ p.cycles = 1
    THEN LET nmi(q) ==
                 IF generate_vblank_nmi(q.control)
                 THEN [ppu |-> [q EXCEPT !.nmi_interrupt = Some(1)], frame_complete |-> TRUE]
                 ELSE [ppu |-> q, frame_complete |-> FALSE]
         IN  nmi([p EXCEPT !.status = set(@, VERTICAL_BLANK_STARTED, TRUE)])
    ELSE [ppu |-> p, frame_complete |-> FALSE]

\* "Advance renderer" with `self.cycles > 341` for `self.cycles >= 341`
PPU_tick_advance_late(p) ==
    LET c == p.cycles + 1
    IN  IF c > 341
        THEN IF p.scanline + 1 >= 261
             THEN [ppu |-> [p EXCEPT !.cycles = 0, !.scanline = -1], frame_complete |-> TRUE]
             ELSE [ppu |-> [p EXCEPT !.cycles = 0, !.scanline = @ + 1], frame_complete |-> FALSE]
        ELSE [ppu |-> [p EXCEPT !.cycles = c], frame_complete |-> FALSE]

\* lib.rs 481-491: "Advance renderer"
PPU_tick_advance(p) ==
    LET c == p.cycles + 1
    IN  IF c >= 341
        THEN IF p.scanline + 1 >= 261
             THEN [ppu |-> [p EXCEPT !.cycles = 0, !.scanline = -1], frame_complete |-> TRUE]
             ELSE [ppu |-> [p EXCEPT !.cycles = 0, !.scanline = @ + 1], frame_complete |-> FALSE]
        ELSE [ppu |-> [p EXCEPT !.cycles = c], frame_complete |-> FALSE]

\* one iteration of the loop of tick
PPU_tick_dot(p, overflow_checks) ==
    LET render(q) ==
            IF q.scanline >= -1 /\ q.scanline < 240 THEN PPU_tick_render(q) ELSE Ok(q, 0)
        signal(b, c) ==
            [ppu |-> c.ppu, frame_complete |-> b.frame_complete \/ c.frame_complete,
             fatal |-> "none"]
        advance(b) == signal(b, PPU_tick_advance(b.ppu))
        rest(r) ==
            IF r.fatal # "none"
            THEN [ppu |-> r.ppu, frame_complete |-> FALSE, fatal |-> r.fatal]
            ELSE advance(PPU_tick_vblank(r.ppu))
    IN  IF /\ p.scanline >= -1 /\ p.scanline < 240 /\ p.cycles = 340
           /\ Len(p.sprite_scanline) > 0
           /\ PPU_tick_fetch(p, overflow_checks) # "none"
        THEN [ppu |-> p, frame_complete |-> FALSE,
              fatal |-> PPU_tick_fetch(p, overflow_checks)]
        ELSE rest(render(p))

\* `for _ in 0..cycles`: n iterations in sequence, the first n \div 2 and then
\* the rest, which keeps the evaluation shallow; a panic ends the loop.
RECURSIVE PPU_tick_loop(_, _, _, _)
PPU_tick_loop(p, n, frame_complete, overflow_checks) ==
    IF n = 0
    THEN [ppu |-> p, frame_complete |-> frame_complete, fatal |-> "none"]
    ELSE IF n = 1
    THEN LET signal(r) ==
                 [ppu |-> r.ppu, frame_complete |-> frame_complete \/ r.frame_complete,
                  fatal |-> r.fatal]
         IN  signal(PPU_tick_dot(p, overflow_checks))
    ELSE LET rest(r) ==
                 IF r.fatal # "none" THEN r
                 ELSE IF r.frame_complete
                 THEN PPU_tick_loop(r.ppu, n - (n \div 2), TRUE, overflow_checks)
                 ELSE PPU_tick_loop(r.ppu, n - (n \div 2), FALSE, overflow_checks)
         IN  rest(PPU_tick_loop(p, n \div 2, frame_complete, overflow_checks))

\* pub fn tick(&mut self, cycles: u8) -> bool, in a build with or without
\* overflow checks
PPU_tick(p, cycles, overflow_checks) == PPU_tick_loop(p, cycles, FALSE, overflow_checks)

ppu_write(p, addr, value) ==
    IF addr <= 8191
    THEN IF addr < p.chr_rom_len
         THEN Ok([p EXCEPT !.chr_rom = Mem_set(@, addr, value)], 0)
         ELSE Panic(p, "index out of bounds")
    ELSE IF addr <= 16127
    THEN Ok([p EXCEPT !.vram = Mem_set(@, mirror_vram_addr(p, addr), value)], 0)
    ELSE IF addr <= 16383
    THEN Ok([p EXCEPT !.palette_table = Mem_set(@, palette_index(addr), value)], 0)
    ELSE Panic(p, "Unknown address")

increment_vram_addr(p) ==
    [p EXCEPT !.vram_addr =
        set_bits(@, get_bits(p.vram_addr) + vram_address_increment(p.control))]

read_data(p) ==
    LET buffered(addr, r) ==
            IF r.fatal # "none" THEN r
            ELSE Ok(increment_vram_addr([p EXCEPT !.internal_data_buf = r.ret]),
                    IF addr >= PALETTE_RAM_START THEN r.ret ELSE p.internal_data_buf)
        at(addr) == buffered(addr, ppu_read(p, addr))
    IN  at(get_bits(p.vram_addr))

write_to_data(p, value) ==
    LET written(r) == IF r.fatal # "none" THEN r ELSE Ok(increment_vram_addr(r.ppu), 0)
    IN  written(ppu_write(p, get_bits(p.vram_addr), value))

\* write_to_ppu_address taking all eight bits of the first byte
write_to_ppu_address_unmasked(p, value) ==
    IF p.address_latch = 0
    THEN [p EXCEPT !.tram_addr =
                       set_bits(@, BitOr(Shl(value, 8), BitAnd(get_bits(p.tram_addr), 255))),
                   !.address_latch = 1]
    ELSE LET latch(t) ==
                 [p EXCEPT !.tram_addr = t,
                           !.vram_addr = set_bits(@, get_bits(t)),
                           !.address_latch = 0]
         IN  latch(set_bits(p.tram_addr,
                            BitOr(BitAnd(get_bits(p.tram_addr), 65280), value)))

write_to_ppu_address(p, value) ==
    IF p.address_latch = 0
    THEN [p EXCEPT !.tram_addr =
                       set_bits(@, BitOr(Shl(BitAnd(value, 63), 8),
                                         BitAnd(get_bits(p.tram_addr), 255))),
                   !.address_latch = 1]
    ELSE LET latch(t) ==
                 [p EXCEPT !.tram_addr = t,
                           !.vram_addr = set_bits(@, get_bits(t)),
                           !.address_latch = 0]
         IN  latch(set_bits(p.tram_addr,
                            BitOr(BitAnd(get_bits(p.tram_addr), 65280), value)))

write_to_control(p, value) ==
    [p EXCEPT !.control = value,
              !.tram_addr =
                  set_nametable_y(
                      set_nametable_x(@, IF contains(value, NAMETABLE1) THEN 1 ELSE 0),
                      IF contains(value, NAMETABLE2) THEN 1 ELSE 0)]

write_to_scroll(p, value) ==
    IF p.address_latch = 0
    THEN [p EXCEPT !.fine_x = BitAnd(value, 7),
                   !.tram_addr = set_coarse_x(@, Shr(value, 3)),
                   !.address_latch = 1]
    ELSE [p EXCEPT !.tram_addr = set_coarse_y(set_fine_y(@, BitAnd(value, 7)),
                                              Shr(value, 3)),
                   !.address_latch = 0]

\* read_status without `self.address_latch = 0`
read_status_keep_latch(p) ==
    Ok([p EXCEPT !.status = set(@, VERTICAL_BLANK_STARTED, FALSE)], p.status)

read_status(p) ==
    Ok([p EXCEPT !.status = set(@, VERTICAL_BLANK_STARTED, FALSE),
                 !.address_latch = 0],
       p.status)

write_to_oam_address(p, value) == [p EXCEPT !.oam_address = value]

write_to_oam_data(p, value) ==
    [p EXCEPT !.oam_data = Mem_set(@, p.oam_address, value),
              !.oam_address = (@ + 1) % U8]

read_oam_data(p) == Ok(p, Mem_get(p.oam_data, p.oam_address))

\* impl Mem for PPU: mem_read
PPU_mem_read(p, addr) ==
    IF addr \in DOMAIN PPU_REGISTERS
    THEN LET register == PPU_REGISTERS[addr]
         IN  IF ~is_read_allowed(register) THEN Ok(p, 0)
             ELSE IF register.field = "Status"
             THEN LET noise(r) ==
                          Ok(r.ppu, BitOr(BitAnd(r.ret, 224), BitAnd(p.internal_data_buf, 31)))
                  IN  noise(read_status(p))
             ELSE IF register.field = "OAMData" THEN read_oam_data(p)
             ELSE IF register.field = "Data" THEN read_data(p)
             ELSE Panic(p, "Unexpected read")
    ELSE Ok(p, 0)

\* impl Mem for PPU: mem_write
PPU_mem_write(p, addr, value) ==
    IF addr \in DOMAIN PPU_REGISTERS
    THEN LET register == PPU_REGISTERS[addr]
         IN  IF ~is_write_allowed(register) THEN Panic(p, "Tried to write to readonly")
             ELSE IF register.field = "Control" THEN Ok(write_to_control(p, value), 0)
             ELSE IF register.field = "Mask" THEN Ok([p EXCEPT !.mask = value], 0)
             ELSE IF register.field = "OAMAddress" THEN Ok(write_to_oam_address(p, value), 0)
             ELSE IF register.field = "OAMData" THEN Ok(write_to_oam_data(p, value), 0)
             ELSE IF register.field = "Scroll" THEN Ok(write_to_scroll(p, value), 0)
             ELSE IF register.field = "Address" THEN Ok(write_to_ppu_address(p, value), 0)
             ELSE IF register.field = "Data" THEN write_to_data(p, value)
             ELSE Panic(p, "Unexpected write")
    ELSE Ok(p, 0)

\* write_oam_dma storing data[k] at oam_data[k], whatever the OAM address
write_oam_dma_from_zero(p, data) ==
    [p EXCEPT !.oam_data = [i \in {k \in 0..255 : data[k + 1] # 0} |-> data[i + 1]]]

\* the iterations lo .. up - 1 of the loop of write_oam_dma, split in halves;
\* the body of the loop is that of write_to_oam_data
RECURSIVE oam_dma_loop(_, _, _, _)
oam_dma_loop(p, data, lo, up) ==
    IF up = lo + 1
    THEN write_to_oam_data(p, data[lo + 1])
    ELSE LET rest(left) ==       \* oam_address is a u8
                 IF left.oam_address < U8
                 THEN oam_dma_loop(left, data, (lo + up) \div 2, up)
                 ELSE left
         IN  rest(oam_dma_loop(p, data, lo, (lo + up) \div 2))

\* pub fn write_oam_dma(&mut self, data: &[u8; 256]); data is the sequence of
\* the 256 bytes
write_oam_dma(p, data) == oam_dma_loop(p, data, 0, Len(data))

(***************************************************************************)
(* Bus (emulator/src/bus.rs)                                               *)
(***************************************************************************)
RAM_MIRRORS_END == 8191                \* 0x2000 - 1
RAM_MIRRORS_MASK == 2047               \* 0x800 - 1; addr & 0x7FF is addr % 0x800
PPU_REGISTERS_START == 8192            \* 0x2000
PPU_REGISTERS_END == 8199              \* 0x2000 + 0x08 - 1
PPU_REGISTERS_MIRRORS_START == 8200    \* PPU_REGISTERS_END + 1
PPU_REGISTERS_MIRRORS_END == 16383     \* 0x3FFF
PPU_REGISTER_OAM_DMA == 16404          \* 0x4014
JOYPAD_1_ADDR == 16406                 \* 0x4016
JOYPAD_2_ADDR == 16407                 \* 0x4017
PRG_START == 32768                     \* 0x8000
PRG_END == 65535                       \* 0xFFFF

\* Bus::new(ppu): the per-frame callback of Bus::new is the empty closure.
\* rom is None or Some of [len, prg_rom], prg_rom a sparse map of len bytes.
Bus_new == [cycles |-> 0, cpu_vram |-> ZeroMem, rom |-> None]

\* the result of a bus access: the three components afterwards, the byte
\* returned (0 when none) and "none" or the panic that ended the access
Done(b, p, j, r) == [bus |-> b, ppu |-> p, joypad |-> j, ret |-> r, fatal |-> "none"]
Fatal(b, p, j, msg) == [bus |-> b, ppu |-> p, joypad |-> j, ret |-> 0, fatal |-> msg]

\* fn read_prg_rom(&self, mut addr: u16) -> u8: the byte read and "none", or
\* the panic of `rom.prg_rom[addr as usize]` when the offset, folded only in
\* an image of exactly 0x4000 bytes, is not below the length of the image
read_prg_rom(b, addr) ==
    IF b.rom = None THEN [ret |-> 255, fatal |-> "none"]
    ELSE LET rom == b.rom[1]
             a == addr - PRG_START
             m == IF rom.len = 16384 /\ a >= 16384 THEN a % 16384 ELSE a
         IN  IF m < rom.len
             THEN [ret |-> Mem_get(rom.prg_rom, m), fatal |-> "none"]
             ELSE [ret |-> 0, fatal |-> "index out of bounds"]

\* the address a PPU register mirror is decoded to: addr & PPU_REGISTERS_END
mirror_down_quad(addr) == PPU_REGISTERS_START + (addr % 4)

mirror_down(addr) == BitAnd(addr, PPU_REGISTERS_END)

\* impl Mem for Bus: mem_read
Bus_mem_read_direct(b, p, j, addr) ==
    IF addr <= RAM_MIRRORS_END
    THEN Done(b, p, j, Mem_get(b.cpu_vram, addr % (RAM_MIRRORS_MASK + 1)))
    ELSE IF addr <= PPU_REGISTERS_END
    THEN LET of_ppu(r) ==
                 [bus |-> b, ppu |-> r.ppu, joypad |-> j, ret |-> r.ret, fatal |-> r.fatal]
         IN  of_ppu(PPU_mem_read(p, addr))
    ELSE IF addr >= 16384 /\ addr <= 16405              \* 0x4000..=0x4015
    THEN Done(b, p, j, 255)
    ELSE IF addr = JOYPAD_1_ADDR
    THEN LET of_joypad(r) == Done(b, p, r.joypad, r.ret) IN of_joypad(Joypad_read(j))
    ELSE IF addr = JOYPAD_2_ADDR
    THEN Done(b, p, j, 0)
    ELSE IF addr >= PRG_START
    THEN LET of_rom(r) ==
                 IF r.fatal # "none" THEN Fatal(b, p, j, r.fatal) ELSE Done(b, p, j, r.ret)
         IN  of_rom(read_prg_rom(b, addr))
    ELSE Done(b, p, j, 0)

Bus_mem_read(b, p, j, addr) ==
    Bus_mem_read_direct(b, p, j,
        IF addr >= PPU_REGISTERS_MIRRORS_START /\ addr <= PPU_REGISTERS_MIRRORS_END
        THEN mirror_down(addr)
        ELSE addr)

\* the loop of the OAM DMA: buffer[i] = self.mem_read(hi + i) for i in lo..up-1,
\* in sequence; the result carries the components after the reads, the bytes
\* read (as a sequence) and the panic, if any
RECURSIVE oam_dma_reads(_, _, _, _, _, _)
oam_dma_reads(b, p, j, hi, lo, up) ==
    IF up = lo + 1
    THEN LET one(r) ==
                 [bus |-> r.bus, ppu |-> r.ppu, joypad |-> r.joypad, fatal |-> r.fatal,
                  buffer |-> <<r.ret>>]
         IN  one(Bus_mem_read(b, p, j, hi + lo))
    ELSE LET mid == (lo + up) \div 2
             rest(left) ==
                 IF left.fatal # "none" THEN left
                 ELSE [oam_dma_reads(left.bus, left.ppu, left.joypad, hi, mid, up)
                          EXCEPT !.buffer = left.buffer \o @]
         IN  rest(oam_dma_reads(b, p, j, hi, lo, mid))

\* the arm PRG_START..=PRG_END of mem_write
write_prg_rom_store(b, p, j, addr, value) ==
    IF b.rom = None THEN Done(b, p, j, 0)
    ELSE Done([b EXCEPT !.rom = Some([b.rom[1] EXCEPT !.prg_rom =
                                         Mem_set(@, (addr - PRG_START) % b.rom[1].len, value)])],
              p, j, 0)

write_prg_rom(b, p, j, addr, value) ==
    Fatal(b, p, j, "Attempt to write to Cartridge ROM space")

\* impl Mem for Bus: mem_write
Bus_mem_write_direct(b, p, j, addr, value) ==
    IF addr <= RAM_MIRRORS_END
    THEN Done([b EXCEPT !.cpu_vram = Mem_set(@, addr % (RAM_MIRRORS_MASK + 1), value)],
              p, j, 0)
    ELSE IF addr <= PPU_REGISTERS_END
    THEN LET of_ppu(r) ==
                 [bus |-> b, ppu |-> r.ppu, joypad |-> j, ret |-> 0, fatal |-> r.fatal]
         IN  of_ppu(PPU_mem_write(p, addr, value))
    ELSE IF addr = PPU_REGISTER_OAM_DMA
    THEN LET transfer(r) ==
                 IF r.fatal # "none" THEN Fatal(r.bus, r.ppu, r.joypad, r.fatal)
                 ELSE Done(r.bus, write_oam_dma(r.ppu, r.buffer), r.joypad, 0)
         IN  transfer(oam_dma_reads(b, p, j, Shl(value, 8), 0, 256))
    ELSE IF (addr >= 16384 /\ addr <= 16403) \/ addr = 16405   \* 0x4000..=0x4013 | 0x4015
    THEN Done(b, p, j, 0)
    ELSE IF addr = JOYPAD_1_ADDR
    THEN Done(b, p, Joypad_write(j, value), 0)
    ELSE IF addr = JOYPAD_2_ADDR
    THEN Done(b, p, j, 0)
    ELSE IF addr >= PRG_START
    THEN write_prg_rom(b, p, j, addr, value)
    ELSE Done(b, p, j, 0)

Bus_mem_write(b, p, j, addr, value) ==
    Bus_mem_write_direct(b, p, j,
        IF addr >= PPU_REGISTERS_MIRRORS_START /\ addr <= PPU_REGISTERS_MIRRORS_END
        THEN mirror_down(addr)
        ELSE addr,
        value)

\* pub fn tick(&mut self, cycles: u8): `cycles * 3` is a u8 product, which
\* panics when overflow checks are on and wraps when they are off.
Bus_tick(b, p, cycles, overflow_checks) ==
    LET b1 == [b EXCEPT !.cycles = @ + cycles]
        product == cycles * 3
    IN  IF product >= U8 /\ overflow_checks
        THEN [bus |-> b1, ppu |-> p, new_frame |-> FALSE, dots |-> 0,
              fatal |-> "attempt to multiply with overflow"]
        ELSE LET ticked(r) ==
                     [bus |-> b1, ppu |-> r.ppu, new_frame |-> r.frame_complete,
                      dots |-> product % U8, fatal |-> r.fatal]
             IN  ticked(PPU_tick(p, product % U8, overflow_checks))

\* pub fn poll_nmi_status(&mut self) -> Option<u8>: Option::take
Bus_poll_nmi_status_keep(p) == [ret |-> p.nmi_interrupt, ppu |-> p]

Bus_poll_nmi_status(p) ==
    [ret |-> p.nmi_interrupt, ppu |-> [p EXCEPT !.nmi_interrupt = None]]

(***************************************************************************)
(* Observers.  They record what the claims speak of and feed nothing back  *)
(* into the program state.                                                 *)
(***************************************************************************)
JpObs0 == [phase |-> "idle", reads |-> 0, got |-> 0, want |-> 0, index_ok |-> TRUE]
CpuObs0 ==
    [fetched |-> 0,             \* opcodes fetched
     completed |-> 0,           \* instructions whose last part (the fixup) is done
     boundary_pc |-> 0,         \* the program counter after the last completed instruction
     flag_set_in |-> 0,         \* the instruction (by its fetch number) during which the
                                \* PPU last processed (241, 1) with NMI enabled
     flag_phase |-> "none",     \* and the part of the loop that was ticking the bus then
     polled_some |-> 0,         \* polls that returned a pending interrupt
     entries |-> 0,             \* calls of interrupt_nmi
     entry_fetched |-> 0,       \* at the last call of interrupt_nmi: fetched,
     entry_completed |-> 0,     \*   completed,
     entry_flag_set_in |-> 0,   \*   flag_set_in,
     entry_flag_phase |-> "none", \* flag_phase,
     entry_boundary_pc |-> 0,   \*   boundary_pc,
     entry_pushed_pc |-> 0,     \*   and the return address it pushed
     entry_cost |-> 0,          \* bus cycles spent by the last call of interrupt_nmi
     boundary_cycles |-> 0,     \* bus.cycles when the last completed instruction, or the
                                \* interrupt entry after it, was done
     last_pc |-> 0,             \* the address of the last completed instruction,
     last_code |-> 0,           \*   its opcode,
     cost |-> 0]                \*   and the bus cycles it spent
MemObs0 ==
    [op |-> "none",       \* the last bus access: "read" or "write"
     addr |-> 0,          \* its address
     value |-> 0,         \* the byte written
     n |-> 0,             \* bus accesses so far
     same |-> TRUE,       \* every access so far at a PPU register mirror did what the
                          \* same access at $2000 + (addr mod 8) does from the same state
     unchanged |-> TRUE,  \* the last access left bus, PPU and joypad as they were
     rest_same |-> TRUE,  \* the last access left bus and PPU as they were
     rom0 |-> None,       \* the cartridge the bus was given
     before |->           \* bus, PPU and joypad before the last access
         [bus |-> Bus_new, ppu |-> PPU_new_empty_rom, joypad |-> Joypad_new]]
FrObs0 ==
    [dots |-> 0,        \* dots the PPU was advanced by, in total
     signals |-> 0,     \* calls of PPU::tick that returned true
     wraps |-> 0,       \* wraps of scanline back to -1
     since |-> 0,       \* dots since the last wrap (since construction before the first)
     frame_dots |-> 0,  \* dots between the last two wraps
     cbs |-> 0,         \* callback invocations since the last wrap
     frame_cbs |-> 0,   \* callback invocations between the last two wraps
     vbl_nmi |-> 0]     \* dots (241, 1) processed with NMI enabled

\* a tick of n <= 255 dots from p to q wrapped iff it left scanline 260 for -1
Wrapped(p, q) == p.scanline = 260 /\ q.scanline = -1

\* a tick of n dots from p processes the dot (scanline 241, dot 1)
ProcessesVblankStart(p, n) ==
    \/ p.scanline = 241 /\ p.cycles <= 1 /\ p.cycles + n > 1
    \/ p.scanline = 240 /\ p.cycles + n > 341 + 1

FrObserve(o, p, q, n, signal, callback) ==
    LET w == Wrapped(p, q)
        cb == IF callback THEN 1 ELSE 0
    IN  [dots |-> o.dots + n,
         signals |-> o.signals + (IF signal THEN 1 ELSE 0),
         wraps |-> o.wraps + (IF w THEN 1 ELSE 0),
         since |-> IF w THEN q.cycles ELSE o.since + n,
         frame_dots |-> IF w THEN o.since + (n - q.cycles) ELSE o.frame_dots,
         cbs |-> IF w THEN 0 ELSE o.cbs + cb,
         frame_cbs |-> IF w THEN o.cbs + cb ELSE o.frame_cbs,
         vbl_nmi |-> o.vbl_nmi +
                     (IF ProcessesVblankStart(p, n) /\ generate_vblank_nmi(p.control)
                      THEN 1 ELSE 0)]

(***************************************************************************)
(* CPU (emulator/src/cpu.rs) with its registers (src/register.rs) and the  *)
(* entries of the opcode table (src/opcodes.rs) that the programs of       *)
(* SpecCPU execute.  The operations work on a machine record               *)
(*   [bus, ppu, joypad, register, fatal, frobs]                            *)
(* and do nothing once fatal is set, as a panic ends the run.              *)
(***************************************************************************)
ZERO == 2                       \* CpuFlags 0b00000010
INTERRUPT_DISABLE == 4          \* CpuFlags 0b00000100
BREAK == 16                     \* CpuFlags 0b00010000
BREAK2 == 32                    \* CpuFlags 0b00100000
NEGATIVE == 128                 \* CpuFlags 0b10000000
STACK == 256                    \* 0x0100
STACK_RESET == 253              \* 0xFD
VECTOR_NMI_INTERRUPT_HANDLER == 65530   \* $FFFA

Register_new ==
    [a |-> 0, x |-> 0, y |-> 0, pc |-> 0, sp |-> STACK_RESET, status |-> 36]

CPU_new == [register |-> Register_new, phase |-> "poll", code |-> 0,
            program_counter_state |-> 0]

OPCODES ==
    [code \in {0, 76, 141, 169, 173, 208, 234, 240} |->
        CASE code = 0   -> [instruction |-> "BRK", len |-> 1, cycles |-> 7, mode |-> "NoneAddressing"]
          [] code = 76  -> [instruction |-> "JMP", len |-> 3, cycles |-> 3, mode |-> "Absolute"]        \* 0x4C
          [] code = 141 -> [instruction |-> "STA", len |-> 3, cycles |-> 4, mode |-> "Absolute"]        \* 0x8D
          [] code = 169 -> [instruction |-> "LDA", len |-> 2, cycles |-> 2, mode |-> "Immediate"]       \* 0xA9
          [] code = 173 -> [instruction |-> "LDA", len |-> 3, cycles |-> 4, mode |-> "Absolute"]        \* 0xAD
          [] code = 208 -> [instruction |-> "BNE", len |-> 2, cycles |-> 2, mode |-> "NoneAddressing"]  \* 0xD0
          [] code = 234 -> [instruction |-> "NOP", len |-> 1, cycles |-> 2, mode |-> "NoneAddressing"]  \* 0xEA
          [] code = 240 -> [instruction |-> "BEQ", len |-> 2, cycles |-> 2, mode |-> "NoneAddressing"]] \* 0xF0

update_zero_and_negative_flags_zero_only(reg, result) ==
    [reg EXCEPT !.status = set(@, ZERO, result = 0)]

update_zero_and_negative_flags(reg, result) ==
    [reg EXCEPT !.status = set(set(@, ZERO, result = 0),
                               NEGATIVE, BitAnd(result, 128) # 0)]

page_cross(a, b) == BitAnd(a, 65280) # BitAnd(b, 65280)

\* impl Mem for CPU: mem_read, mem_write go to the bus
CPU_mem_read(m, addr) ==
    IF m.fatal # "none" THEN [m |-> m, ret |-> 0]
    ELSE LET of_bus(r) ==
                 [m |-> [m EXCEPT !.bus = r.bus, !.ppu = r.ppu, !.joypad = r.joypad,
                                  !.fatal = r.fatal],
                  ret |-> r.ret]
         IN  of_bus(Bus_mem_read(m.bus, m.ppu, m.joypad, addr))

CPU_mem_write(m, addr, value) ==
    IF m.fatal # "none" THEN m
    ELSE LET of_bus(r) ==
                 [m EXCEPT !.bus = r.bus, !.ppu = r.ppu, !.joypad = r.joypad, !.fatal = r.fatal]
         IN  of_bus(Bus_mem_write(m.bus, m.ppu, m.joypad, addr, value))

\* core/src/mem.rs: mem_read_u16
CPU_mem_read_u16(m, addr) ==
    LET word(lo, hi) == [m |-> hi.m, ret |-> BitOr(Shl(hi.ret, 8), lo.ret)]
        high(lo) == word(lo, CPU_mem_read(lo.m, (addr + 1) % U16))
    IN  high(CPU_mem_read(m, addr))

\* self.bus.tick(cycles), with the dots and callbacks it causes counted in frobs
CPU_bus_tick(m, cycles) ==
    IF m.fatal # "none" THEN m
    ELSE LET ticked(r) ==
                 [m EXCEPT !.bus = r.bus, !.ppu = r.ppu, !.fatal = r.fatal,
                           !.frobs = FrObserve(@, m.ppu, r.ppu, r.dots, r.new_frame, r.new_frame)]
         IN  ticked(Bus_tick(m.bus, m.ppu, cycles, build))

stack_push(m, value) ==
    [CPU_mem_write(m, STACK + m.register.sp, value) EXCEPT !.register.sp = (@ - 1) % U8]

stack_push_u16(m, value) ==
    stack_push(stack_push(m, Shr(value, 8)), BitAnd(value, 255))

interrupt_nmi(m) ==
    LET push_status(a) ==
            stack_push(a, set(set(a.register.status, BREAK, FALSE), BREAK2, TRUE))
        disable(b) == [b EXCEPT !.register.status = BitOr(@, INTERRUPT_DISABLE)]
        jump(v) == [v.m EXCEPT !.register.pc = v.ret]
    IN  jump(CPU_mem_read_u16(
                CPU_bus_tick(disable(push_status(stack_push_u16(m, m.register.pc))), 2),
                VECTOR_NMI_INTERRUPT_HANDLER))

\* get_operand_address for the modes Immediate and Absolute
get_operand_address(m, mode) ==
    IF mode = "Immediate" THEN [m |-> m, ret |-> m.register.pc]
    ELSE CPU_mem_read_u16(m, m.register.pc)

\* load(RegisterField::A, mode); page_crossed is false for these modes
load_A(m, mode) ==
    LET set_a(value) ==
            [value.m EXCEPT !.register =
                update_zero_and_negative_flags([@ EXCEPT !.a = value.ret], value.ret)]
        at(addr) == CPU_mem_read(addr.m, addr.ret)
    IN  set_a(at(get_operand_address(m, mode)))

\* store(RegisterField::A, mode)
store_A(m, mode) ==
    LET at(addr) == CPU_mem_write(addr.m, addr.ret, m.register.a)
    IN  at(get_operand_address(m, mode))

jmp_absolute(m) ==
    LET to(addr) == [addr.m EXCEPT !.register.pc = addr.ret]
    IN  to(get_operand_address(m, "Absolute"))

\* branch without the cycle of a page crossing
branch_flat(m, condition) ==
    IF condition
    THEN LET offset(jump) == IF jump.ret >= 128 THEN jump.ret + 65280 ELSE jump.ret
             next(a) == (a.register.pc + 1) % U16
             to(jump) == [jump.m EXCEPT !.register.pc = (next(jump.m) + offset(jump)) % U16]
             operand(a) == CPU_mem_read(a, a.register.pc)
         IN  to(operand(CPU_bus_tick(m, 1)))
    ELSE m

branch(m, condition) ==
    IF condition
    THEN LET offset(jump) ==
                 IF jump.ret >= 128 THEN jump.ret + 65280 ELSE jump.ret    \* as i8 as u16
             next(a) == (a.register.pc + 1) % U16
             to(a, jump_addr) == [a EXCEPT !.register.pc = jump_addr]
             cross(a, crossed) == IF crossed THEN CPU_bus_tick(a, 1) ELSE a
             taken(jump, jump_addr) ==
                 to(cross(jump.m, page_cross(next(jump.m), jump_addr)), jump_addr)
             target(jump) == taken(jump, (next(jump.m) + offset(jump)) % U16)
             operand(a) == CPU_mem_read(a, a.register.pc)
         IN  target(operand(CPU_bus_tick(m, 1)))
    ELSE m

\* the arm of `match opcode.instruction` for the instructions of OPCODES
CPU_execute(m, opcode) ==
    CASE opcode.instruction = "NOP" -> m
      [] opcode.instruction = "LDA" -> load_A(m, opcode.mode)
      [] opcode.instruction = "STA" -> store_A(m, opcode.mode)
      [] opcode.instruction = "JMP" -> jmp_absolute(m)
      [] opcode.instruction = "BNE" -> branch(m, ~contains(m.register.status, ZERO))
      [] opcode.instruction = "BEQ" -> branch(m, contains(m.register.status, ZERO))
      [] OTHER -> m

\* The body of the loop of run_with_callback is a sequence of four parts:
\* "poll" (poll_nmi_status and interrupt_nmi), "fetch" (the callback, the
\* opcode fetch and the instruction), "tick" (bus.tick(opcode.cycles)) and
\* "fixup" (the program counter moves over the operands).
CPU_next_phase_early(phase) ==
    CASE phase = "poll" -> "fetch"
      [] phase = "fetch" -> "tick"
      [] phase = "tick" -> "poll"
      [] phase = "fixup" -> "poll"

CPU_next_phase(phase) ==
    CASE phase = "poll" -> "fetch"
      [] phase = "fetch" -> "tick"
      [] phase = "tick" -> "fixup"
      [] phase = "fixup" -> "poll"

(***************************************************************************)
(* SpecPPU: a freshly constructed PPU driven by calls of tick.             *)
(***************************************************************************)
FrameDots == 341 * 262
MaxDots == 89342
PpuTickSizes == {0, 31, 62, 248}

InitPPU ==
    /\ joypad = Joypad_new
    /\ ppu = PPU_new_empty_rom
    /\ bus = Bus_new
    /\ cpu = CPU_new
    /\ build = FALSE
    /\ fatal = "none"
    /\ ret = None
    /\ jpobs = JpObs0
    /\ frobs = FrObs0
    /\ cpuobs = CpuObs0
    /\ memobs = MemObs0

PpuTick(n) ==
    /\ fatal = "none"
    /\ frobs.dots + n <= MaxDots
    /\ LET becomes(r) ==
               /\ ppu' = r.ppu
               /\ ret' = r.frame_complete
               /\ fatal' = r.fatal
               /\ frobs' = FrObserve(frobs, ppu, r.ppu, n, r.frame_complete, FALSE)
       IN  becomes(PPU_tick(ppu, n, build))
    /\ UNCHANGED <<joypad, bus, cpu, build, jpobs, cpuobs, memobs>>

NextPPU == \E n \in PpuTickSizes : PpuTick(n)

SpecPPU == InitPPU /\ [][NextPPU]_vars

\* C1 as stated: after exactly 341 * 262 dots from a freshly constructed PPU,
\* however split into tick calls, there was exactly one "frame complete"
\* signal and the PPU is at scanline -1, dot 0.
C1_AsStated ==
    frobs.dots = FrameDots =>
        frobs.signals = 1 /\ ppu.scanline = -1 /\ ppu.cycles = 0

\* what the code does: there was exactly one "frame complete" signal, and the
\* PPU is at scanline 0, dot 2.  It starts at scanline 0, dot 0, and the
\* "Odd Frame" skip (lib.rs 220-223) makes every pass over that position take
\* one iteration from dot 0 to dot 2, on the first frame and on every later one.
C1_FrameCadence ==
    frobs.dots = FrameDots =>
        frobs.signals = 1 /\ ppu.scanline = 0 /\ ppu.cycles = 2

(***************************************************************************)
(* SpecJoypad: a freshly constructed joypad under any sequence of writes,  *)
(* reads and button changes.  jpobs follows the protocol: "armed" after a  *)
(* write with bit 0 set, "open" after a following write with bit 0 clear;  *)
(* in "open" it counts the reads and records the byte the last one         *)
(* returned next to the state of the button that read is about.            *)
(***************************************************************************)
MaxReads == 10
JoypadWriteData == {0, 1, 2, 255}
ButtonOrder == <<BUTTON_A, BUTTON_B, SELECT, START, UP, DOWN, LEFT, RIGHT>>

is_pressed(j, button) == BitAnd(j.button_status, button) # 0

JoypadWrite(data) ==
    /\ joypad' = Joypad_write(joypad, data)
    /\ jpobs' = IF data % 2 = 1
                THEN [JpObs0 EXCEPT !.phase = "armed"]
                ELSE IF jpobs.phase = "armed"
                THEN [JpObs0 EXCEPT !.phase = "open"]
                ELSE jpobs
    /\ UNCHANGED <<ppu, bus, cpu, build, fatal, ret, frobs, cpuobs, memobs>>

JoypadRead ==
    /\ jpobs.reads < MaxReads
    /\ LET becomes(r) ==
               /\ joypad' = r.joypad
               /\ ret' = r.ret
               /\ jpobs' = IF jpobs.phase = "open"
                           THEN [jpobs EXCEPT
                                   !.reads = @ + 1,
                                   !.got = r.ret,
                                   !.want = IF jpobs.reads < 8
                                            THEN IF is_pressed(joypad, ButtonOrder[jpobs.reads + 1])
                                                 THEN 1 ELSE 0
                                            ELSE 1,
                                   !.index_ok = @ /\ (jpobs.reads < 8 =>
                                       r.joypad.button_index = joypad.button_index + 1)]
                           ELSE jpobs
       IN  becomes(Joypad_read(joypad))
    /\ UNCHANGED <<ppu, bus, cpu, build, fatal, frobs, cpuobs, memobs>>

JoypadSetPressed(button) ==
    /\ joypad' = Joypad_set_pressed(joypad, button)
    /\ UNCHANGED <<ppu, bus, cpu, build, fatal, ret, jpobs, frobs, cpuobs, memobs>>

JoypadSetReleased(button) ==
    /\ joypad' = Joypad_set_released(joypad, button)
    /\ UNCHANGED <<ppu, bus, cpu, build, fatal, ret, jpobs, frobs, cpuobs, memobs>>

NextJoypad ==
    \/ \E data \in JoypadWriteData : JoypadWrite(data)
    \/ JoypadRead
    \/ \E button \in JoypadButtons : JoypadSetPressed(button)
    \/ \E button \in JoypadButtons : JoypadSetReleased(button)

SpecJoypad == InitPPU /\ [][NextJoypad]_vars

\* C10: after a write with bit 0 = 1 followed by a write with bit 0 = 0, the
\* k-th read (k = 1..8) returns the pressed state of the k-th button of
\* A, B, Select, Start, Up, Down, Left, Right and advances the index by one,
\* and every read after the eighth returns 1, until the strobe is armed again.
C10_ReadOrder ==
    jpobs.phase = "open" =>
        /\ ~joypad.strobe
        /\ joypad.button_index = (IF jpobs.reads < 8 THEN jpobs.reads ELSE 8)
        /\ jpobs.index_ok
        /\ jpobs.reads >= 1 => jpobs.got = jpobs.want

C10_Witness ==
    /\ jpobs.phase = "open"
    /\ jpobs.reads = 9
    /\ jpobs.got = 1
    /\ joypad.button_status = BUTTON_B + LEFT

(***************************************************************************)
(* The bus clock: Bus::tick as one step, with the empty callback of        *)
(* Bus::new.  frobs counts the dots the PPU was advanced by and the        *)
(* callback invocations.                                                   *)
(***************************************************************************)
BusTick(n) ==
    /\ fatal = "none"
    /\ LET becomes(r) ==
               /\ bus' = r.bus
               /\ ppu' = r.ppu
               /\ fatal' = r.fatal
               /\ frobs' = FrObserve(frobs, ppu, r.ppu, r.dots, r.new_frame, r.new_frame)
       IN  becomes(Bus_tick(bus, ppu, n, build))
    /\ UNCHANGED <<joypad, cpu, build, ret, jpobs, cpuobs, memobs>>

\* the program writes the control register through the bus
BusWriteControl(value) ==
    /\ fatal = "none"
    /\ LET becomes(r) ==
               /\ bus' = r.bus
               /\ ppu' = r.ppu
               /\ joypad' = r.joypad
               /\ fatal' = r.fatal
       IN  becomes(Bus_mem_write(bus, ppu, joypad, PPU_REGISTERS_START, value))
    /\ UNCHANGED <<cpu, build, ret, jpobs, frobs, cpuobs, memobs>>

(***************************************************************************)
(* SpecRatio: a fresh bus ticked by amounts from the whole range of the u8 *)
(* parameter, in a build with overflow checks and in one without.          *)
(***************************************************************************)
MaxRatioCycles == 300
RatioTickSizes == {0, 1, 85, 86, 128, 255}

InitRatio ==
    /\ joypad = Joypad_new
    /\ ppu = PPU_new_empty_rom
    /\ bus = Bus_new
    /\ cpu = CPU_new
    /\ build \in BOOLEAN
    /\ fatal = "none"
    /\ ret = None
    /\ jpobs = JpObs0
    /\ frobs = FrObs0
    /\ cpuobs = CpuObs0
    /\ memobs = MemObs0

NextRatio ==
    \E n \in RatioTickSizes : bus.cycles + n <= MaxRatioCycles /\ BusTick(n)

SpecRatio == InitRatio /\ [][NextRatio]_vars

\* C3 as stated: every bus.tick(n), n in 0..=255, adds n to the cycle counter
\* and advances the PPU by 3 * n dots, so the dots advanced are always three
\* times the cycles ticked.
C3_AsStated == frobs.dots = 3 * bus.cycles

(***************************************************************************)
(* SpecFrame: a fresh bus whose control register is written before the     *)
(* first tick and which is then ticked through more than two frames.       *)
(***************************************************************************)
MaxFrameCycles == 60000
FrameTickSizes == {40, 80}
FrameControlValues == {0, GENERATE_NMI_AT_VBI}

NextFrame ==
    \/ \E n \in FrameTickSizes : bus.cycles + n <= MaxFrameCycles /\ BusTick(n)
    \/ \E v \in FrameControlValues : bus.cycles = 0 /\ ppu.control # v /\ BusWriteControl(v)

SpecFrame == InitPPU /\ [][NextFrame]_vars

\* C4 as stated: between two consecutive wraps of the scanline counter back to
\* -1 the per-frame callback runs exactly once, whatever the NMI-enable bit.
C4_AsStated == frobs.wraps >= 2 => frobs.frame_cbs = 1

\* C5 as stated: between two consecutive wraps of the scanline counter back to
\* -1 the PPU is advanced by exactly 262 * 341 = 89342 dots.
C5_AsStated == frobs.wraps >= 2 => frobs.frame_dots = FrameDots

(***************************************************************************)
(* SpecMem: a bus with or without a cartridge, accessed at addresses from  *)
(* every region of the memory map.  memobs records the last access and     *)
(* compares what it did with the state before it.                          *)
(***************************************************************************)
MaxMemOps == 2
PrgRomImage == [len |-> 16384, prg_rom |-> [a \in {0, 1, 16383} |-> 76 + (a % 7)]]
MemRoms == {None, Some(PrgRomImage)}
MemAddrs ==
    {0, 256, 2048, 8191,                                     \* RAM and its mirrors
     8192, 8193, 8194, 8195, 8196, 8197, 8198, 8199,         \* $2000..$2007
     8200, 8201, 8202, 13395, 13396, 16381, 16382, 16383,    \* $2008 $2009 $200A $3453 $3454 $3FFD $3FFE $3FFF
     16384, 16403, 16404, 16405, 16406, 16407,               \* $4000 $4013 $4014 $4015 $4016 $4017
     16408, 24576,                                           \* $4018 $6000
     32768, 49152, 65535}                                    \* $8000 $C000 $FFFF
MemValues == {1, 63, 64, 128}
\* the joypad at construction, and with A, Left and Right held after seven
\* reads (set_pressed and read are public)
MemJoypads == {Joypad_new, [strobe |-> FALSE, button_index |-> 7, button_status |-> 193]}

is_mirror(addr) ==
    addr >= PPU_REGISTERS_MIRRORS_START /\ addr <= PPU_REGISTERS_MIRRORS_END

InitMem ==
    /\ joypad \in MemJoypads
    /\ ppu = PPU_new_empty_rom
    /\ \E rom \in MemRoms :
          /\ bus = [Bus_new EXCEPT !.rom = rom]
          /\ memobs = [MemObs0 EXCEPT !.rom0 = rom]
    /\ cpu = CPU_new
    /\ build = FALSE
    /\ fatal = "none"
    /\ ret = 0
    /\ jpobs = JpObs0
    /\ frobs = FrObs0
    /\ cpuobs = CpuObs0

MemObserve(o, op, addr, value, r, base) ==
    [o EXCEPT !.op = op, !.addr = addr, !.value = value, !.n = @ + 1,
              !.same = @ /\ (is_mirror(addr) => r = base),
              !.unchanged = (r.bus = bus /\ r.ppu = ppu /\ r.joypad = joypad),
              !.rest_same = (r.bus = bus /\ r.ppu = ppu),
              !.before = [bus |-> bus, ppu |-> ppu, joypad |-> joypad]]

MemRead(addr) ==
    /\ fatal = "none"
    /\ memobs.n < MaxMemOps
    /\ LET becomes(r, base) ==
               /\ bus' = r.bus
               /\ ppu' = r.ppu
               /\ joypad' = r.joypad
               /\ ret' = r.ret
               /\ fatal' = r.fatal
               /\ memobs' = MemObserve(memobs, "read", addr, 0, r, base)
       IN  becomes(Bus_mem_read(bus, ppu, joypad, addr),
                   Bus_mem_read(bus, ppu, joypad, PPU_REGISTERS_START + (addr % 8)))
    /\ UNCHANGED <<cpu, build, jpobs, frobs, cpuobs>>

MemWrite(addr, value) ==
    /\ fatal = "none"
    /\ memobs.n < MaxMemOps
    /\ LET becomes(r, base) ==
               /\ bus' = r.bus
               /\ ppu' = r.ppu
               /\ joypad' = r.joypad
               /\ fatal' = r.fatal
               /\ memobs' = MemObserve(memobs, "write", addr, value, r, base)
       IN  becomes(Bus_mem_write(bus, ppu, joypad, addr, value),
                   Bus_mem_write(bus, ppu, joypad, PPU_REGISTERS_START + (addr % 8), value))
    /\ UNCHANGED <<cpu, build, ret, jpobs, frobs, cpuobs>>

NextMem ==
    \/ \E addr \in MemAddrs : MemRead(addr)
    \/ \E addr \in MemAddrs, value \in MemValues : MemWrite(addr, value)

SpecMem == InitMem /\ [][NextMem]_vars

ApuStub == 16384..16407                 \* $4000..$4017
wrote(addrs) == memobs.op = "write" /\ memobs.addr \in addrs
read(addrs) == memobs.op = "read" /\ memobs.addr \in addrs

\* C7: every bus write to an address in $8000-$FFFF ends in the fatal error
\* "Attempt to write to Cartridge ROM space", and the cartridge held by the
\* bus is the one it was given, whatever accesses were made.
C7_RomReadOnly ==
    /\ wrote(PRG_START..PRG_END) => fatal = "Attempt to write to Cartridge ROM space"
    /\ bus.rom = memobs.rom0

C7_Witness ==
    /\ wrote({49152})
    /\ memobs.n = 2
    /\ fatal = "Attempt to write to Cartridge ROM space"
    /\ bus.rom = Some(PrgRomImage)

\* C8: every read and every write at an address a in $2008-$3FFF returned the
\* same byte, ended in the same way and left bus, PPU and joypad in the same
\* state as the same access at $2000 + (a mod 8) does from the same state.
C8_RegisterMirrors == memobs.same

C8_Witness ==
    /\ wrote({16382})               \* $3FFE, a mirror of the address register
    /\ memobs.value = 63
    /\ ppu.address_latch = 1
    /\ get_bits(ppu.tram_addr) = 16128
    /\ memobs.same

DmaByte(i) == Mem_get(ppu.oam_data, (memobs.before.ppu.oam_address + i) % U8)

\* the last access left everything but the OAM bytes as it was
DmaOnlyOam ==
    /\ bus = memobs.before.bus
    /\ joypad = memobs.before.joypad
    /\ ppu = [memobs.before.ppu EXCEPT !.oam_data = ppu.oam_data]

\* the bit of the button the joypad index selected before the last access
JoypadBit ==
    (memobs.before.joypad.button_status \div Pow2(memobs.before.joypad.button_index)) % 2

MaxCpuCycles == 58000
ProgramBase == 1536             \* 0x0600

Image(base, bytes) ==
    [a \in {base + i - 1 : i \in {k \in 1..Len(bytes) : bytes[k] # 0}} |-> bytes[a - base + 1]]

\* LDA #$80; STA $2000; L: NOP; JMP L
ProgramNop == <<169, 128, 141, 0, 32, 234, 76, 5, 6>>
\* LDA #$80; STA $2000; L: LDA $2002; BNE L; JMP L
ProgramStatus == <<169, 128, 141, 0, 32, 173, 2, 32, 208, 251, 76, 5, 6>>
\* LDA #$80; STA $2000; BRK
ProgramBrk == <<169, 128, 141, 0, 32, 0>>
Programs == {ProgramNop, ProgramStatus, ProgramBrk}

\* the cartridge: at $8000 the handler JMP $0605, at $FFFA the vector $8000
HandlerRom ==
    [len |-> 16384,
     prg_rom |-> [a \in {0, 1, 2, 16379} |->
                    CASE a = 0 -> 76 [] a = 1 -> 5 [] a = 2 -> 6 [] a = 16379 -> 128]]

InitCPU ==
    /\ joypad = Joypad_new
    /\ ppu = PPU_new_empty_rom
    /\ \E program \in Programs :
          bus = [Bus_new EXCEPT !.cpu_vram = Image(ProgramBase, program),
                                !.rom = Some(HandlerRom)]
    /\ cpu = [CPU_new EXCEPT !.register.pc = ProgramBase]
    /\ build = FALSE
    /\ fatal = "none"
    /\ ret = None
    /\ jpobs = JpObs0
    /\ frobs = FrObs0
    /\ cpuobs = [CpuObs0 EXCEPT !.boundary_pc = ProgramBase]
    /\ memobs = MemObs0

Machine == [bus |-> bus, ppu |-> ppu, joypad |-> joypad, register |-> cpu.register,
            fatal |-> fatal, frobs |-> frobs]

\* the machine after a part of the loop body becomes the next state
Becomes(m) ==
    /\ bus' = m.bus
    /\ ppu' = m.ppu
    /\ joypad' = m.joypad
    /\ fatal' = m.fatal
    /\ frobs' = m.frobs

\* the PPU processed (241, 1) with NMI enabled between frobs and m.frobs
FlagSet(m) == m.frobs.vbl_nmi > frobs.vbl_nmi

PushedPc(m) ==
    Mem_get(m.bus.cpu_vram, STACK + cpu.register.sp) * 256
        + Mem_get(m.bus.cpu_vram, STACK + ((cpu.register.sp - 1) % U8))

CpuPoll ==
    /\ cpu.phase = "poll"
    /\ fatal = "none"
    /\ bus.cycles < MaxCpuCycles
    /\ LET entered(r, m) ==
               /\ Becomes(m)
               /\ ret' = r.ret
               /\ cpu' = [cpu EXCEPT !.register = m.register, !.phase = CPU_next_phase("poll")]
               /\ cpuobs' =
                    IF r.ret # None
                    THEN [cpuobs EXCEPT
                            !.polled_some = @ + 1,
                            !.entries = @ + 1,
                            !.entry_fetched = cpuobs.fetched,
                            !.entry_completed = cpuobs.completed,
                            !.entry_flag_set_in = cpuobs.flag_set_in,
                            !.entry_flag_phase = cpuobs.flag_phase,
                            !.entry_boundary_pc = cpuobs.boundary_pc,
                            !.entry_pushed_pc = PushedPc(m),
                            !.entry_cost = m.bus.cycles - bus.cycles,
                            !.boundary_cycles = m.bus.cycles,
                            !.flag_set_in = IF FlagSet(m) THEN cpuobs.fetched ELSE @,
                            !.flag_phase = IF FlagSet(m) THEN "interrupt" ELSE @]
                    ELSE cpuobs
           polled(r) == [Machine EXCEPT !.ppu = r.ppu]
           poll(r) ==
               entered(r, IF r.ret # None THEN interrupt_nmi(polled(r)) ELSE polled(r))
       IN  poll(Bus_poll_nmi_status(ppu))
    /\ UNCHANGED <<build, jpobs, memobs>>

CpuFetch ==
    /\ cpu.phase = "fetch"
    /\ fatal = "none"
    /\ LET executed(code, fetched, opcode, m) ==
               /\ Becomes(m)
               /\ cpu' = [register |-> m.register,
                          phase |-> IF opcode.instruction = "BRK" THEN "returned"
                                    ELSE CPU_next_phase("fetch"),
                          code |-> code.ret,
                          program_counter_state |-> fetched.register.pc]
               /\ cpuobs' = [cpuobs EXCEPT
                               !.fetched = @ + 1,
                               !.flag_set_in = IF FlagSet(m) THEN cpuobs.fetched + 1 ELSE @,
                               !.flag_phase = IF FlagSet(m) THEN "fetch" ELSE @]
           fetched(code) == [code.m EXCEPT !.register.pc = (@ + 1) % U16]
           fetch(code) ==
               /\ code.ret \in DOMAIN OPCODES
               /\ executed(code, fetched(code), OPCODES[code.ret],
                           CPU_execute(fetched(code), OPCODES[code.ret]))
       IN  fetch(CPU_mem_read(Machine, cpu.register.pc))
    /\ UNCHANGED <<build, ret, jpobs, memobs>>

CpuTick ==
    /\ cpu.phase = "tick"
    /\ fatal = "none"
    /\ LET ticked(m) ==
               /\ Becomes(m)
               /\ cpu' = [cpu EXCEPT !.phase = CPU_next_phase("tick")]
               /\ cpuobs' = [cpuobs EXCEPT
                               !.flag_set_in = IF FlagSet(m) THEN cpuobs.fetched ELSE @,
                               !.flag_phase = IF FlagSet(m) THEN "tick" ELSE @]
       IN  ticked(CPU_bus_tick(Machine, OPCODES[cpu.code].cycles))
    /\ UNCHANGED <<build, ret, jpobs, memobs>>

CpuFixup ==
    /\ cpu.phase = "fixup"
    /\ fatal = "none"
    /\ LET pc == IF cpu.program_counter_state = cpu.register.pc
                 THEN (cpu.register.pc + (OPCODES[cpu.code].len - 1)) % U16
                 ELSE cpu.register.pc
       IN  /\ cpu' = [cpu EXCEPT !.register.pc = pc, !.phase = CPU_next_phase("fixup")]
           /\ cpuobs' = [cpuobs EXCEPT !.completed = @ + 1, !.boundary_pc = pc,
                                       !.boundary_cycles = bus.cycles,
                                       !.last_pc = cpuobs.boundary_pc,
                                       !.last_code = cpu.code,
                                       !.cost = bus.cycles - cpuobs.boundary_cycles]
    /\ UNCHANGED <<joypad, ppu, bus, build, fatal, ret, jpobs, frobs, memobs>>

NextCPU == CpuPoll \/ CpuFetch \/ CpuTick \/ CpuFixup

SpecCPU == InitCPU /\ [][NextCPU]_vars

\* C2: the CPU polls the interrupt only between instructions, and when it
\* enters the NMI handler every instruction fetched so far is complete: the
\* instruction during which the PPU raised the flag has had all its effects,
\* and the return address pushed is the program counter that instruction left.
C2_NmiAtBoundary ==
    /\ cpu.phase = "poll" => cpuobs.fetched = cpuobs.completed
    /\ cpuobs.entries >= 1 =>
          /\ cpuobs.entry_fetched = cpuobs.entry_completed
          /\ cpuobs.entry_flag_set_in <= cpuobs.entry_completed
          /\ cpuobs.entry_pushed_pc = cpuobs.entry_boundary_pc

C2_Witness ==
    /\ cpuobs.entries >= 1
    /\ cpuobs.entry_flag_phase = "tick"
    /\ cpuobs.entry_flag_set_in = cpuobs.entry_completed
    /\ cpuobs.entry_pushed_pc = 1541

\* C6: a poll that returns the pending interrupt clears it, so the polls that
\* returned one, and with them the entries into the NMI handler, never
\* outnumber the times the PPU processed (241, 1) with NMI enabled.
C6_OneEntryPerVblank ==
    /\ cpuobs.polled_some <= frobs.vbl_nmi
    /\ cpuobs.entries = cpuobs.polled_some
    /\ cpu.phase = "fetch" => ppu.nmi_interrupt = None \/ cpuobs.flag_phase = "interrupt"
    /\ cpuobs.polled_some + (IF ppu.nmi_interrupt # None THEN 1 ELSE 0) = frobs.vbl_nmi

C6_Witness ==
    /\ cpuobs.entries = 2
    /\ frobs.vbl_nmi = 2
    /\ ppu.nmi_interrupt = None

(***************************************************************************)
(* The Mem trait's 16-bit accessors (core/src/mem.rs) over the plain       *)
(* memory of the standalone core's tests (cpu6502/src/mock_bus.rs).        *)
(***************************************************************************)
MOCK_BUS_LEN == 65535           \* memory: [u8; 0xFFFF]

MockBus_new == [memory |-> ZeroMem, fatal |-> "none"]

\* self.memory[addr as usize]: an index past the array panics
MockBus_mem_read(b, addr) ==
    IF b.fatal # "none" THEN [bus |-> b, ret |-> 0]
    ELSE IF addr >= MOCK_BUS_LEN
    THEN [bus |-> [b EXCEPT !.fatal = "index out of bounds"], ret |-> 0]
    ELSE [bus |-> b, ret |-> Mem_get(b.memory, addr)]

MockBus_mem_write(b, addr, value) ==
    IF b.fatal # "none" THEN b
    ELSE IF addr >= MOCK_BUS_LEN
    THEN [b EXCEPT !.fatal = "index out of bounds"]
    ELSE [b EXCEPT !.memory = Mem_set(@, addr, value)]

mem_read_u16(b, addr) ==
    LET word(lo, hi) == [bus |-> hi.bus, ret |-> BitOr(Shl(hi.ret, 8), lo.ret)]
        high(lo) == word(lo, MockBus_mem_read(lo.bus, (addr + 1) % U16))
    IN  high(MockBus_mem_read(b, addr))

mem_write_u16(b, addr, value) ==
    MockBus_mem_write(MockBus_mem_write(b, addr, BitAnd(value, 255)),
                      (addr + 1) % U16, Shr(value, 8))

(***************************************************************************)
(* Words written to and read from a fresh MockBus.                         *)
(***************************************************************************)
MaxWordOps == 3

WordAddrs == {16, 255, 1536, 65533, 65534, 65535}   \* $0010 $00FF $0600 $FFFD $FFFE $FFFF
WordValues == {0, 255, 4386, 51966, 65280, 65535}   \* $0000 $00FF $1122 $CAFE $FF00 $FFFF

WordObs0 == [op |-> "none", addr |-> 0, value |-> 0, n |-> 0, last |-> None]

InitWord ==
    /\ joypad = Joypad_new
    /\ ppu = PPU_new_empty_rom
    /\ bus = MockBus_new
    /\ cpu = CPU_new
    /\ build = FALSE
    /\ fatal = "none"
    /\ ret = 0
    /\ jpobs = JpObs0
    /\ frobs = FrObs0
    /\ cpuobs = CpuObs0
    /\ memobs = WordObs0

WordWrite(addr, value) ==
    /\ fatal = "none"
    /\ memobs.n < MaxWordOps
    /\ LET becomes(b) ==
               /\ bus' = b
               /\ fatal' = b.fatal
       IN  becomes(mem_write_u16(bus, addr, value))
    /\ memobs' = [op |-> "write16", addr |-> addr, value |-> value, n |-> memobs.n + 1,
                  last |-> Some([addr |-> addr, value |-> value])]
    /\ UNCHANGED <<joypad, ppu, cpu, build, ret, jpobs, frobs, cpuobs>>

WordRead(addr) ==
    /\ fatal = "none"
    /\ memobs.n < MaxWordOps
    /\ LET becomes(r) ==
               /\ bus' = r.bus
               /\ fatal' = r.bus.fatal
               /\ ret' = r.ret
       IN  becomes(mem_read_u16(bus, addr))
    /\ memobs' = [memobs EXCEPT !.op = "read16", !.addr = addr, !.n = @ + 1]
    /\ UNCHANGED <<joypad, ppu, cpu, build, jpobs, frobs, cpuobs>>

NextWord ==
    \/ \E addr \in WordAddrs, value \in WordValues : WordWrite(addr, value)
    \/ \E addr \in WordAddrs : WordRead(addr)

SpecWord == InitWord /\ [][NextWord]_vars

\* C11: a 16-bit write of value at addr stores the low byte at addr and the
\* high byte at (addr + 1) mod 2^16, and a 16-bit read of addr that follows
\* the write returns value, for every addr, $00FF and $FFFF included.
C11_AsStated ==
    /\ memobs.op = "write16" =>
          /\ fatal = "none"
          /\ Mem_get(bus.memory, memobs.addr) = memobs.value % U8
          /\ Mem_get(bus.memory, (memobs.addr + 1) % U16) = memobs.value \div U8
    /\ (memobs.op = "read16" /\ memobs.last # None /\ memobs.last[1].addr = memobs.addr) =>
          /\ fatal = "none"
          /\ ret = memobs.last[1].value

\* The round trip on the addresses whose two bytes lie inside the array.
C11_InsideArray ==
    memobs.addr + 1 < MOCK_BUS_LEN => C11_AsStated

C11_InsideWitness ==
    /\ memobs.op = "read16"
    /\ memobs.last # None
    /\ memobs.last[1].addr = memobs.addr
    /\ memobs.addr = 255
    /\ ret = 51966

(***************************************************************************)
(* Register::read and Register::write (src/register.rs)                    *)
(***************************************************************************)
RegisterFields == {"A", "X", "Y", "SP", "STATUS"}

Register_read(reg, field) ==
    CASE field = "A" -> reg.a
      [] field = "X" -> reg.x
      [] field = "Y" -> reg.y
      [] field = "SP" -> reg.sp
      [] field = "STATUS" -> reg.status

Register_write(reg, field, value) ==
    LET flags(r) == IF field = "SP" THEN r ELSE update_zero_and_negative_flags(r, value)
    IN  flags(CASE field = "A" -> [reg EXCEPT !.a = value]
                [] field = "X" -> [reg EXCEPT !.x = value]
                [] field = "Y" -> [reg EXCEPT !.y = value]
                [] field = "SP" -> [reg EXCEPT !.sp = value]
                [] field = "STATUS" -> [reg EXCEPT !.status = value])

(***************************************************************************)
(* One access to a register file: Register::new() with any status byte     *)
(* (the status is a public field that the instructions set bit by bit).    *)
(* What write does depends on the status, the field and the value only,    *)
(* and all of them are enumerated, so a run is a single access.            *)
(***************************************************************************)
RegValues == 0..255
RegStatuses == 0..255

RegObs0 == [op |-> "none", field |-> "A", value |-> 0, before |-> Register_new]

InitRegister ==
    /\ joypad = Joypad_new
    /\ ppu = PPU_new_empty_rom
    /\ bus = Bus_new
    /\ \E status \in RegStatuses :
          cpu = [CPU_new EXCEPT !.register.status = status]
    /\ build = FALSE
    /\ fatal = "none"
    /\ ret = 0
    /\ jpobs = JpObs0
    /\ frobs = FrObs0
    /\ cpuobs = RegObs0
    /\ memobs = MemObs0

RegWrite ==
    /\ cpuobs.op = "none"
    /\ \E field \in RegisterFields, value \in RegValues :
          /\ cpu' = [cpu EXCEPT !.register = Register_write(@, field, value)]
          /\ cpuobs' = [op |-> "write", field |-> field, value |-> value,
                        before |-> cpu.register]
    /\ UNCHANGED <<joypad, ppu, bus, build, fatal, ret, jpobs, frobs, memobs>>

\* the read of the field written
RegRead ==
    /\ cpuobs.op = "write"
    /\ ret' = Register_read(cpu.register, cpuobs.field)
    /\ cpuobs' = [cpuobs EXCEPT !.op = "read"]
    /\ UNCHANGED <<joypad, ppu, bus, cpu, build, fatal, jpobs, frobs, memobs>>

NextRegister ==
    \/ RegWrite
    \/ RegRead

SpecRegister == InitRegister /\ [][NextRegister]_vars

\* the status bits other than ZERO and NEGATIVE
OtherFlags(status) == BitAnd(status, 255 - ZERO - NEGATIVE)

\* C12: a write of v to A, X or Y through the register interface stores v,
\* leaves the zero flag equal to (v = 0) and the negative flag equal to
\* (v & 0x80 # 0), and changes no other bit of the status.
C12_FlagsFollowValue ==
    (cpuobs.op \in {"write", "read"} /\ cpuobs.field \in {"A", "X", "Y"}) =>
        /\ Register_read(cpu.register, cpuobs.field) = cpuobs.value
        /\ cpuobs.op = "read" => ret = cpuobs.value
        /\ contains(cpu.register.status, ZERO) = (cpuobs.value = 0)
        /\ contains(cpu.register.status, NEGATIVE) = (BitAnd(cpuobs.value, 128) # 0)
        /\ OtherFlags(cpu.register.status) = OtherFlags(cpuobs.before.status)

C12_Witness ==
    /\ cpuobs.op = "write"
    /\ cpuobs.field = "X"
    /\ cpuobs.value = 128
    /\ contains(cpuobs.before.status, ZERO)
    /\ ~contains(cpuobs.before.status, NEGATIVE)
    /\ cpu.register.status = cpuobs.before.status - ZERO + NEGATIVE

\* C13: a write of v to the status byte leaves the status equal to v, for
\* every v, and a write to SP stores v and leaves the status as it was.
C13_AsStated ==
    /\ (cpuobs.op = "write" /\ cpuobs.field = "STATUS") =>
           cpu.register.status = cpuobs.value
    /\ (cpuobs.op = "write" /\ cpuobs.field = "SP") =>
           /\ cpu.register.sp = cpuobs.value
           /\ cpu.register.status = cpuobs.before.status

\* The part of C13 about SP alone.
C13_StackPointerPart ==
    (cpuobs.op = "write" /\ cpuobs.field = "SP") =>
        /\ cpu.register.sp = cpuobs.value
        /\ cpu.register.status = cpuobs.before.status

(***************************************************************************)
(* The standalone 6502 core (cpu6502/src/cpu.rs).  Its operations take the *)
(* memory as a parameter; here the CPU and the MockBus it is run with in   *)
(* the crate's tests are one record k = [register, complete, cycles, bus]. *)
(***************************************************************************)
CARRY == 1                      \* CpuFlags 0b00000001
OVERFLOW == 64                  \* CpuFlags 0b01000000

RECURSIVE BitXor(_, _)
BitXor(a, b) ==
    IF a = 0 THEN b
    ELSE IF b = 0 THEN a
    ELSE ((a + b) % 2) + 2 * BitXor(a \div 2, b \div 2)

\* casts and wrapping arithmetic of i8
as_i8(v) == IF v >= 128 THEN v - U8 ELSE v
wrap_i8(n) == ((n + 128) % U8) - 128
as_u8(n) == n % U8

Core_new == [register |-> Register_new, complete |-> FALSE, cycles |-> 0, bus |-> MockBus_new]

Core_mem_read(k, addr) ==
    LET of_bus(r) == [k |-> [k EXCEPT !.bus = r.bus], ret |-> r.ret]
    IN  of_bus(MockBus_mem_read(k.bus, addr))

Core_mem_write(k, addr, value) ==
    [k EXCEPT !.bus = MockBus_mem_write(@, addr, value)]

Core_mem_read_u16(k, addr) ==
    LET of_bus(r) == [k |-> [k EXCEPT !.bus = r.bus], ret |-> r.ret]
    IN  of_bus(mem_read_u16(k.bus, addr))

\* a panic of the core itself is kept where the panics of its bus are
Core_panic(k, msg) ==
    IF k.bus.fatal # "none" THEN k ELSE [k EXCEPT !.bus.fatal = msg]

\* the 16-bit little-endian word at the zero-page pointer ptr; the second
\* byte is read at ptr.wrapping_add(1), inside the zero page
Core_deref_zero_page(k, ptr) ==
    LET word(lo, hi) == [k |-> hi.k, ret |-> BitOr(Shl(hi.ret, 8), lo.ret)]
        high(lo) == word(lo, Core_mem_read(lo.k, (ptr + 1) % U8))
    IN  high(Core_mem_read(k, ptr))

Core_get_absolute_address(k, mode, addr) ==
    LET x == Register_read(k.register, "X")
        y == Register_read(k.register, "Y")
        plus8(v, i) == [k |-> v.k, ret |-> (v.ret + i) % U8]
        plus16(v, i) == [k |-> v.k, ret |-> (v.ret + i) % U16]
        deref(v) == Core_deref_zero_page(v.k, v.ret)
    IN  CASE mode = "ZeroPage" -> Core_mem_read(k, addr)
          [] mode = "Absolute" -> Core_mem_read_u16(k, addr)
          [] mode = "ZeroPage_X" -> plus8(Core_mem_read(k, addr), x)
          [] mode = "ZeroPage_Y" -> plus8(Core_mem_read(k, addr), y)
          [] mode = "Absolute_X" -> plus16(Core_mem_read_u16(k, addr), x)
          [] mode = "Absolute_Y" -> plus16(Core_mem_read_u16(k, addr), y)
          [] mode = "Indirect_X" -> deref(plus8(Core_mem_read(k, addr), x))
          [] mode = "Indirect_Y" -> plus16(deref(Core_mem_read(k, addr)), y)
          [] OTHER -> [k |-> Core_panic(k, "mode is not supported"), ret |-> 0]

Core_get_operand_address(k, mode) ==
    IF mode = "Immediate"
    THEN [k |-> k, ret |-> k.register.pc]
    ELSE Core_get_absolute_address(k, mode, k.register.pc)

Core_add_to_register_a(k, data) ==
    LET a == Register_read(k.register, "A")
        carry == IF contains(k.register.status, CARRY) THEN 1 ELSE 0
        flags(status, sum, result) ==
            set(set(status, CARRY, sum > 255),
                OVERFLOW, BitAnd(BitAnd(BitXor(data, result), BitXor(result, a)), 128) # 0)
        store(sum, result) ==
            [k EXCEPT !.register =
                Register_write([@ EXCEPT !.status = flags(@, sum, result)], "A", result)]
        add(sum) == store(sum, sum % U8)
    IN  add(a + data + carry)

Core_adc(k, mode) ==
    LET add(v) == Core_add_to_register_a(v.k, v.ret)
        data(addr) == Core_mem_read(addr.k, addr.ret)
    IN  add(data(Core_get_operand_address(k, mode)))

\* ((data as i8).wrapping_neg().wrapping_sub(1)) as u8, without the wrapping_sub(1)
sbc_operand_negated(data) == as_u8(wrap_i8(0 - as_i8(data)))

\* ((data as i8).wrapping_neg().wrapping_sub(1)) as u8
sbc_operand(data) == as_u8(wrap_i8(wrap_i8(0 - as_i8(data)) - 1))

Core_sbc(k, mode) ==
    LET add(v) == Core_add_to_register_a(v.k, sbc_operand(v.ret))
        data(addr) == Core_mem_read(addr.k, addr.ret)
    IN  add(data(Core_get_operand_address(k, mode)))

(***************************************************************************)
(* One ADC or SBC with an immediate operand, from every accumulator and    *)
(* carry.  The result depends on the accumulator, the carry and the        *)
(* operand only, and all of them are enumerated, so a run is a single      *)
(* instruction.  AluSbc also records what ADC of the complemented operand  *)
(* makes of the same registers.                                            *)
(***************************************************************************)
AluBytes == 0..255

AluObs0 == [op |-> "none", x |-> 0, before |-> Register_new, twin |-> Register_new]

\* the core with the operand byte x at the program counter
WithOperand(k, x) == Core_mem_write(k, k.register.pc, x)

InitAlu ==
    /\ joypad = Joypad_new
    /\ ppu = PPU_new_empty_rom
    /\ bus = Bus_new
    /\ \E a \in AluBytes, carry \in BOOLEAN :
          cpu = [Core_new EXCEPT !.register.pc = ProgramBase + 1,
                                 !.register.a = a,
                                 !.register.status = set(@, CARRY, carry)]
    /\ build = FALSE
    /\ fatal = "none"
    /\ ret = 0
    /\ jpobs = JpObs0
    /\ frobs = FrObs0
    /\ cpuobs = AluObs0
    /\ memobs = MemObs0

AluAdc ==
    /\ cpuobs.op = "none"
    /\ \E x \in AluBytes :
          /\ cpu' = Core_adc(WithOperand(cpu, x), "Immediate")
          /\ cpuobs' = [op |-> "adc", x |-> x, before |-> cpu.register,
                        twin |-> cpu.register]
    /\ UNCHANGED <<joypad, ppu, bus, build, fatal, ret, jpobs, frobs, memobs>>

AluSbc ==
    /\ cpuobs.op = "none"
    /\ \E x \in AluBytes :
          /\ cpu' = Core_sbc(WithOperand(cpu, x), "Immediate")
          /\ cpuobs' = [op |-> "sbc", x |-> x, before |-> cpu.register,
                        twin |-> Core_adc(WithOperand(cpu, BitXor(x, 255)), "Immediate").register]
    /\ UNCHANGED <<joypad, ppu, bus, build, fatal, ret, jpobs, frobs, memobs>>

NextAlu ==
    \/ AluAdc
    \/ AluSbc

SpecAlu == InitAlu /\ [][NextAlu]_vars

\* C14: SBC of x leaves the accumulator and the status (carry, overflow,
\* zero and negative with it) exactly as ADC of x XOR 0xFF leaves them when
\* executed from the same accumulator and carry.
C14_SbcIsAdcOfComplement ==
    cpuobs.op = "sbc" =>
        /\ cpu.register.a = cpuobs.twin.a
        /\ cpu.register.status = cpuobs.twin.status

\* SBC #$01 from A = $00 with the carry clear: A = $FE, negative set, carry
\* and overflow clear, which differs from what the registers held before.
C14_Witness ==
    /\ cpuobs.op = "sbc"
    /\ cpuobs.x = 1
    /\ cpuobs.before.a = 0
    /\ ~contains(cpuobs.before.status, CARRY)
    /\ cpu.register.a = 254
    /\ contains(cpu.register.status, NEGATIVE)
    /\ ~contains(cpu.register.status, CARRY)
    /\ cpuobs.twin.a = 254

(***************************************************************************)
(* JMP (indirect) of the standalone core                                   *)
(***************************************************************************)
\* jmp_indirect reading the pointer's two bytes from addr and addr + 1 always
Core_jmp_indirect_linear(k) ==
    LET jump(v) == [v.k EXCEPT !.register.pc = v.ret]
        deref(addr) == Core_mem_read_u16(addr.k, addr.ret)
    IN  jump(deref(Core_get_operand_address(k, "Absolute")))

Core_jmp_indirect(k) ==
    LET jump(v) == [v.k EXCEPT !.register.pc = v.ret]
        word(lo, hi) == [k |-> hi.k, ret |-> BitOr(Shl(hi.ret, 8), lo.ret)]
        high(lo, addr) == word(lo, Core_mem_read(lo.k, BitAnd(addr, 65280)))
        deref(addr) ==
            IF BitAnd(addr.ret, 255) = 255
            THEN high(Core_mem_read(addr.k, addr.ret), addr.ret)
            ELSE Core_mem_read_u16(addr.k, addr.ret)
    IN  jump(deref(Core_get_operand_address(k, "Absolute")))

(***************************************************************************)
(* JMP (ptr) with the pointer on and off the last byte of a page.  The     *)
(* program counter is at the operand, where tick leaves it after the       *)
(* opcode fetch.                                                           *)
(***************************************************************************)
MaxJmpOps == 1

JmpPointers == {767, 2303, 12288, 12542, 12543}     \* $02FF $08FF $3000 $30FE $30FF
JmpLows == {0, 128, 255}                            \* the byte at ptr
JmpPageStarts == {6, 64, 255}                       \* the byte at ptr & $FF00
JmpNexts == {7, 80}                                 \* the byte at ptr + 1

JmpObs0 == [op |-> "none", addr |-> 0, n |-> 0]

\* memory with the three bytes around ptr and JMP's operand at pc
JmpMemory(k, ptr, lo, start, next) ==
    Core_mem_write(
        Core_mem_write(
            Core_mem_write(
                Core_mem_write(
                    Core_mem_write(k, BitAnd(ptr, 65280), start),
                    (ptr + 1) % U16, next),
                ptr, lo),
            k.register.pc, BitAnd(ptr, 255)),
        (k.register.pc + 1) % U16, Shr(ptr, 8))

InitJmp ==
    /\ joypad = Joypad_new
    /\ ppu = PPU_new_empty_rom
    /\ bus = Bus_new
    /\ \E ptr \in JmpPointers, lo \in JmpLows, start \in JmpPageStarts, next \in JmpNexts :
          cpu = JmpMemory([Core_new EXCEPT !.register.pc = ProgramBase + 1],
                          ptr, lo, start, next)
    /\ build = FALSE
    /\ fatal = "none"
    /\ ret = 0
    /\ jpobs = JpObs0
    /\ frobs = FrObs0
    /\ cpuobs = JmpObs0
    /\ memobs = MemObs0

JmpIndirect ==
    /\ cpuobs.n < MaxJmpOps
    /\ cpu' = Core_jmp_indirect(cpu)
    /\ cpuobs' = [op |-> "jmp_indirect", n |-> cpuobs.n + 1,
                  addr |-> Mem_get(cpu.bus.memory, cpu.register.pc)
                           + U8 * Mem_get(cpu.bus.memory, cpu.register.pc + 1)]
    /\ UNCHANGED <<joypad, ppu, bus, build, fatal, ret, jpobs, frobs, memobs>>

NextJmp == JmpIndirect

SpecJmp == InitJmp /\ [][NextJmp]_vars

\* C15: JMP ($xxFF) takes the low byte of the target from $xxFF and the high
\* byte from $xx00, not from the next page: with $40 at $3000, $80 at $30FF
\* and $50 at $3100, JMP ($30FF) sets the program counter to $4080.
C15_PageWrap ==
    (cpuobs.op = "jmp_indirect" /\ BitAnd(cpuobs.addr, 255) = 255) =>
        /\ cpu.register.pc = Mem_get(cpu.bus.memory, cpuobs.addr)
                             + U8 * Mem_get(cpu.bus.memory, cpuobs.addr - 255)
        /\ (/\ cpuobs.addr = 12543
            /\ Mem_get(cpu.bus.memory, 12288) = 64
            /\ Mem_get(cpu.bus.memory, 12543) = 128
            /\ Mem_get(cpu.bus.memory, 12544) = 80) => cpu.register.pc = 16512

C15_Witness ==
    /\ cpuobs.op = "jmp_indirect"
    /\ cpuobs.addr = 12543
    /\ Mem_get(cpu.bus.memory, 12288) = 64
    /\ Mem_get(cpu.bus.memory, 12543) = 128
    /\ Mem_get(cpu.bus.memory, 12544) = 80
    /\ cpu.register.pc = 16512

(***************************************************************************)
(* Conditional branches in the run loop: the program LDA #v; Bxx offset at *)
(* $0600, for both values of the zero flag and offsets that stay on the    *)
(* page of the next instruction ($0604) or leave it.  The steps are those  *)
(* of the run loop above.                                                  *)
(***************************************************************************)
BranchCodes == {208, 240}                       \* BNE, BEQ
BranchLoads == {0, 1}                           \* LDA #$00 sets the zero flag, LDA #$01 clears it
BranchOffsets == {0, 2, 16, 127, 128, 240, 250, 251}    \* 0 +2 +16 +127 -128 -16 -6 -5

InitBranch ==
    /\ joypad = Joypad_new
    /\ ppu = PPU_new_empty_rom
    /\ \E code \in BranchCodes, v \in BranchLoads, offset \in BranchOffsets :
          bus = [Bus_new EXCEPT !.cpu_vram = Image(ProgramBase, <<169, v, code, offset>>)]
    /\ cpu = [CPU_new EXCEPT !.register.pc = ProgramBase]
    /\ build = FALSE
    /\ fatal = "none"
    /\ ret = None
    /\ jpobs = JpObs0
    /\ frobs = FrObs0
    /\ cpuobs = [CpuObs0 EXCEPT !.boundary_pc = ProgramBase]
    /\ memobs = MemObs0

SpecBranch == InitBranch /\ [][NextCPU]_vars

\* the last completed instruction is a branch, and what it was given
BranchDone == cpu.phase = "poll" /\ cpuobs.completed >= 1 /\ cpuobs.last_code \in BranchCodes
BranchTaken ==
    IF cpuobs.last_code = 208
    THEN ~contains(cpu.register.status, ZERO)
    ELSE contains(cpu.register.status, ZERO)
BranchNext == (cpuobs.last_pc + 2) % U16
BranchTarget == (BranchNext + as_i8(Mem_get(bus.cpu_vram, cpuobs.last_pc + 1))) % U16
BranchCrosses == (BranchNext \div U8) # (BranchTarget \div U8)

\* C16: a branch that is not taken spends the base cycles of its opcode, a
\* taken branch whose target is on the page of the next instruction one
\* more, and a taken branch whose target is on another page two more.
C16_BranchCycles ==
    BranchDone =>
        /\ ~BranchTaken => cpuobs.cost = OPCODES[cpuobs.last_code].cycles
        /\ (BranchTaken /\ ~BranchCrosses) => cpuobs.cost = OPCODES[cpuobs.last_code].cycles + 1
        /\ (BranchTaken /\ BranchCrosses) => cpuobs.cost = OPCODES[cpuobs.last_code].cycles + 2
        /\ BranchTaken => cpu.register.pc = BranchTarget

\* BNE -5 at $0602, taken from $0604 to $05FF: four cycles
C16_Witness ==
    /\ BranchDone
    /\ BranchTaken
    /\ BranchCrosses
    /\ cpuobs.last_code = 208
    /\ cpuobs.last_pc = ProgramBase + 2
    /\ cpu.register.pc = 1535
    /\ cpuobs.cost = 4

(***************************************************************************)
(* The stack of the standalone core                                        *)
(***************************************************************************)
Core_stack_push(k, value) ==
    [Core_mem_write(k, STACK + k.register.sp, value) EXCEPT !.register.sp = (@ - 1) % U8]

Core_stack_pop(k) ==
    LET pop(up) == Core_mem_read(up, STACK + up.register.sp)
    IN  pop([k EXCEPT !.register.sp = (@ + 1) % U8])

Core_stack_push_u16(k, value) ==
    Core_stack_push(Core_stack_push(k, Shr(value, 8)), BitAnd(value, 255))

\* stack_pop_u16 taking the first byte popped as the high byte
Core_stack_pop_u16_swapped(k) ==
    LET word(hi, lo) == [k |-> lo.k, ret |-> BitOr(Shl(hi.ret, 8), lo.ret)]
        low(hi) == word(hi, Core_stack_pop(hi.k))
    IN  low(Core_stack_pop(k))

Core_stack_pop_u16(k) ==
    LET word(lo, hi) == [k |-> hi.k, ret |-> BitOr(Shl(hi.ret, 8), lo.ret)]
        high(lo) == word(lo, Core_stack_pop(lo.k))
    IN  high(Core_stack_pop(k))

(***************************************************************************)
(* Words pushed on and popped off the stack of a new core, from the reset  *)
(* stack pointer and from stack pointers at the ends of the stack page.    *)
(* The observer keeps the words that are on the stack.                     *)
(***************************************************************************)
MaxStackDepth == 3

StackWords == {0, 43707, 51966, 52445}          \* $0000 $AABB $CAFE $CCDD
StackPointers == {0, 1, 253, 255}               \* $FD is STACK_RESET

StackObs0 == [op |-> "none", sp0 |-> STACK_RESET, pushed |-> <<>>, popped |-> <<>>,
              expected |-> 0]

InitStack ==
    /\ joypad = Joypad_new
    /\ ppu = PPU_new_empty_rom
    /\ bus = Bus_new
    /\ \E sp \in StackPointers :
          /\ cpu = [Core_new EXCEPT !.register.sp = sp]
          /\ cpuobs = [StackObs0 EXCEPT !.sp0 = sp]
    /\ build = FALSE
    /\ fatal = "none"
    /\ ret = 0
    /\ jpobs = JpObs0
    /\ frobs = FrObs0
    /\ memobs = MemObs0

StackPush ==
    /\ Len(cpuobs.pushed) < MaxStackDepth
    /\ \E value \in StackWords :
          /\ cpu' = Core_stack_push_u16(cpu, value)
          /\ cpuobs' = [cpuobs EXCEPT !.op = "push", !.pushed = <<value>> \o @,
                                      !.popped = <<>>]
    /\ UNCHANGED <<joypad, ppu, bus, build, fatal, ret, jpobs, frobs, memobs>>

StackPop ==
    /\ cpuobs.pushed # <<>>
    /\ LET becomes(r) ==
               /\ cpu' = r.k
               /\ ret' = r.ret
               /\ cpuobs' = [cpuobs EXCEPT !.op = "pop", !.pushed = Tail(@),
                                           !.popped = Append(@, r.ret),
                                           !.expected = Head(cpuobs.pushed)]
       IN  becomes(Core_stack_pop_u16(cpu))
    /\ UNCHANGED <<joypad, ppu, bus, build, fatal, jpobs, frobs, memobs>>

NextStack ==
    \/ StackPush
    \/ StackPop

SpecStack == InitStack /\ [][NextStack]_vars

\* C17: 16-bit pops return the 16-bit values pushed, last pushed first, and
\* when as many words were popped as pushed the stack pointer is back at
\* its starting value: after pushing $CAFE, $AABB, $CCDD three pops return
\* $CCDD, $AABB, $CAFE.
C17_Lifo ==
    /\ cpuobs.op = "pop" => ret = cpuobs.expected
    /\ cpu.register.sp = (cpuobs.sp0 - 2 * Len(cpuobs.pushed)) % U8
    /\ cpuobs.pushed = <<>> => cpu.register.sp = cpuobs.sp0

C17_Witness ==
    /\ cpuobs.op = "pop"
    /\ cpuobs.sp0 = STACK_RESET
    /\ cpuobs.pushed = <<>>
    /\ cpuobs.popped = <<52445, 43707, 51966>>
    /\ ret = 51966
    /\ cpu.register.sp = STACK_RESET

(***************************************************************************)
(* OAM DMA through the bus: a write to $2003 sets the OAM address and a    *)
(* write of a page number to $4014 copies that page.  Page 2 of the RAM    *)
(* holds $77 in its first byte and $88 in its last, page 3 the bytes $FF   *)
(* down to $00.                                                            *)
(***************************************************************************)
MaxOamOps == 3

OamPages == {2, 3}
OamAddresses == {0, 1, 2, 15, 16, 17, 64, 100, 127, 128, 129, 200, 240, 253, 254, 255}

OamRam ==
    [a \in {512, 767} \cup 768..1022 |->
        CASE a = 512 -> 119
          [] a = 767 -> 136
          [] OTHER -> 255 - (a - 768)]

OamObs0 == [op |-> "none", page |-> 0, oam_address |-> 0, n |-> 0]

InitOam ==
    /\ joypad = Joypad_new
    /\ ppu = PPU_new_empty_rom
    /\ bus = [Bus_new EXCEPT !.cpu_vram = OamRam]
    /\ cpu = CPU_new
    /\ build = FALSE
    /\ fatal = "none"
    /\ ret = 0
    /\ jpobs = JpObs0
    /\ frobs = FrObs0
    /\ cpuobs = CpuObs0
    /\ memobs = OamObs0

OamBecomes(r) ==
    /\ bus' = r.bus
    /\ ppu' = r.ppu
    /\ joypad' = r.joypad
    /\ fatal' = r.fatal

OamSetAddress ==
    /\ fatal = "none"
    /\ memobs.n < MaxOamOps
    /\ \E a \in OamAddresses :
          /\ OamBecomes(Bus_mem_write(bus, ppu, joypad, PPU_REGISTERS_START + 3, a))
          /\ memobs' = [op |-> "address", page |-> a, oam_address |-> ppu.oam_address,
                        n |-> memobs.n + 1]
    /\ UNCHANGED <<cpu, build, ret, jpobs, frobs, cpuobs>>

OamDma ==
    /\ fatal = "none"
    /\ memobs.n < MaxOamOps
    /\ \E page \in OamPages :
          /\ OamBecomes(Bus_mem_write(bus, ppu, joypad, PPU_REGISTER_OAM_DMA, page))
          /\ memobs' = [op |-> "dma", page |-> page, oam_address |-> ppu.oam_address,
                        n |-> memobs.n + 1]
    /\ UNCHANGED <<cpu, build, ret, jpobs, frobs, cpuobs>>

NextOam ==
    \/ OamSetAddress
    \/ OamDma

SpecOam == InitOam /\ [][NextOam]_vars

\* the i-th byte of the page copied by the last DMA
OamBuffer(i) == Mem_get(bus.cpu_vram, memobs.page * U8 + i)

\* C18: an OAM DMA with the OAM address at a stores byte i of the buffer at
\* oam_data[(a + i) mod 256], for every i in 0..255: with a = $10, $77 in
\* byte 0 and $88 in byte 255, oam_data[$10] = $77 and oam_data[$0F] = $88.
C18_DmaPlacement ==
    memobs.op = "dma" =>
        /\ fatal = "none"
        /\ \A i \in 0..255 :
              Mem_get(ppu.oam_data, (memobs.oam_address + i) % U8) = OamBuffer(i)
        /\ (memobs.oam_address = 16 /\ OamBuffer(0) = 119 /\ OamBuffer(255) = 136) =>
              /\ Mem_get(ppu.oam_data, 16) = 119
              /\ Mem_get(ppu.oam_data, 15) = 136

C18_Witness ==
    /\ memobs.op = "dma"
    /\ memobs.oam_address = 16
    /\ OamBuffer(0) = 119
    /\ OamBuffer(255) = 136
    /\ Mem_get(ppu.oam_data, 16) = 119
    /\ Mem_get(ppu.oam_data, 15) = 136

(***************************************************************************)
(* The cost of entering the NMI handler.  In the run loop it is the number *)
(* of bus cycles spent by interrupt_nmi (cpuobs.entry_cost in SpecCPU); in *)
(* the standalone core it is the value interrupt_nmi leaves in cycles.     *)
(***************************************************************************)
Core_interrupt_nmi(k) ==
    LET push_status(a) ==
            Core_stack_push(a, set(set(a.register.status, BREAK, FALSE), BREAK2, TRUE))
        disable(b) == [b EXCEPT !.register.status = BitOr(@, INTERRUPT_DISABLE),
                                !.cycles = 8]
        jump(v) == [v.k EXCEPT !.register.pc = v.ret]
    IN  jump(Core_mem_read_u16(
                disable(push_status(Core_stack_push_u16(k, k.register.pc))),
                VECTOR_NMI_INTERRUPT_HANDLER))

MaxNmiOps == 1

NmiProgramCounters == {0, 1536, 1538, 32768, 49152, 65535}
NmiStatuses == {36, 37, 38, 52, 100, 164, 165, 255}
NmiHandlers == {0, 1541, 32768}

NmiObs0 == [op |-> "none", before |-> Register_new, n |-> 0]

InitNmi ==
    /\ joypad = Joypad_new
    /\ ppu = PPU_new_empty_rom
    /\ bus = Bus_new
    /\ \E pc \in NmiProgramCounters, status \in NmiStatuses, handler \in NmiHandlers :
          cpu = [Core_new EXCEPT !.register.pc = pc,
                                 !.register.status = status,
                                 !.bus = mem_write_u16(@, VECTOR_NMI_INTERRUPT_HANDLER, handler)]
    /\ build = FALSE
    /\ fatal = "none"
    /\ ret = 0
    /\ jpobs = JpObs0
    /\ frobs = FrObs0
    /\ cpuobs = NmiObs0
    /\ memobs = MemObs0

CoreNmi ==
    /\ cpuobs.n < MaxNmiOps
    /\ cpu' = Core_interrupt_nmi(cpu)
    /\ cpuobs' = [op |-> "interrupt_nmi", before |-> cpu.register, n |-> cpuobs.n + 1]
    /\ UNCHANGED <<joypad, ppu, bus, build, fatal, ret, jpobs, frobs, memobs>>

NextNmi == CoreNmi

SpecNmi == InitNmi /\ [][NextNmi]_vars

\* C19: entering the NMI handler costs exactly 7 CPU cycles (run loop: the
\* bus cycles between the poll that found the interrupt and the next fetch).
C19_AsStated ==
    cpuobs.entries >= 1 => cpuobs.entry_cost = 7

\* the same for the standalone core: the cycles interrupt_nmi charges
C19_StandaloneAsStated ==
    cpuobs.op = "interrupt_nmi" => cpu.cycles = 7

\* what the two implementations do: 2 bus cycles, and 8 cycles
C19_BusAttachedCost ==
    cpuobs.entries >= 1 => cpuobs.entry_cost = 2

C19_StandaloneCost ==
    cpuobs.op = "interrupt_nmi" =>
        /\ cpu.cycles = 8
        /\ cpu.register.pc = Mem_get(cpu.bus.memory, 65530) + U8 * Mem_get(cpu.bus.memory, 65531)
        /\ cpu.register.sp = (cpuobs.before.sp - 3) % U8

(***************************************************************************)
(* The opcode table (src/opcodes.rs): CPU_OPCODES in the order of the      *)
(* source, and OPCODES_MAP built from it.                                  *)
(***************************************************************************)
OpCode_new(code, instruction, len, cycles, mode) ==
    [code |-> code, instruction |-> instruction, len |-> len, cycles |-> cycles, mode |-> mode]

CPU_OPCODES == <<
    OpCode_new(105, "ADC", 2, 2, "Immediate"),       \* 0x69
    OpCode_new(101, "ADC", 2, 3, "ZeroPage"),        \* 0x65
    OpCode_new(117, "ADC", 2, 4, "ZeroPage_X"),      \* 0x75
    OpCode_new(109, "ADC", 3, 4, "Absolute"),        \* 0x6D
    OpCode_new(125, "ADC", 3, 4, "Absolute_X"),      \* 0x7D
    OpCode_new(121, "ADC", 3, 4, "Absolute_Y"),      \* 0x79
    OpCode_new( 97, "ADC", 2, 6, "Indirect_X"),      \* 0x61
    OpCode_new(113, "ADC", 2, 5, "Indirect_Y"),      \* 0x71
    OpCode_new( 41, "AND", 2, 2, "Immediate"),       \* 0x29
    OpCode_new( 37, "AND", 2, 3, "ZeroPage"),        \* 0x25
    OpCode_new( 53, "AND", 2, 4, "ZeroPage_X"),      \* 0x35
    OpCode_new( 45, "AND", 3, 4, "Absolute"),        \* 0x2D
    OpCode_new( 61, "AND", 3, 4, "Absolute_X"),      \* 0x3D
    OpCode_new( 57, "AND", 3, 4, "Absolute_Y"),      \* 0x39
    OpCode_new( 33, "AND", 2, 6, "Indirect_X"),      \* 0x21
    OpCode_new( 49, "AND", 2, 5, "Indirect_Y"),      \* 0x31
    OpCode_new( 10, "ASL", 1, 2, "Accumulator"),     \* 0x0A
    OpCode_new(  6, "ASL", 2, 5, "ZeroPage"),        \* 0x06
    OpCode_new( 22, "ASL", 2, 6, "ZeroPage_X"),      \* 0x16
    OpCode_new( 14, "ASL", 3, 6, "Absolute"),        \* 0x0E
    OpCode_new( 30, "ASL", 3, 7, "Absolute_X"),      \* 0x1E
    OpCode_new(144, "BCC", 2, 2, "NoneAddressing"),  \* 0x90
    OpCode_new(176, "BCS", 2, 2, "NoneAddressing"),  \* 0xB0
    OpCode_new(240, "BEQ", 2, 2, "NoneAddressing"),  \* 0xF0
    OpCode_new( 48, "BMI", 2, 2, "NoneAddressing"),  \* 0x30
    OpCode_new(208, "BNE", 2, 2, "NoneAddressing"),  \* 0xD0
    OpCode_new( 16, "BPL", 2, 2, "NoneAddressing"),  \* 0x10
    OpCode_new( 80, "BVC", 2, 2, "NoneAddressing"),  \* 0x50
    OpCode_new(112, "BVS", 2, 2, "NoneAddressing"),  \* 0x70
    OpCode_new( 36, "BIT", 2, 3, "ZeroPage"),        \* 0x24
    OpCode_new( 44, "BIT", 3, 4, "Absolute"),        \* 0x2C
    OpCode_new(  0, "BRK", 1, 7, "NoneAddressing"),  \* 0x00
    OpCode_new( 24, "CLC", 1, 2, "NoneAddressing"),  \* 0x18
    OpCode_new(216, "CLD", 1, 2, "NoneAddressing"),  \* 0xD8
    OpCode_new( 88, "CLI", 1, 2, "NoneAddressing"),  \* 0x58
    OpCode_new(184, "CLV", 1, 2, "NoneAddressing"),  \* 0xB8
    OpCode_new(201, "CMP", 2, 2, "Immediate"),       \* 0xC9
    OpCode_new(197, "CMP", 2, 3, "ZeroPage"),        \* 0xC5
    OpCode_new(213, "CMP", 2, 4, "ZeroPage_X"),      \* 0xD5
    OpCode_new(205, "CMP", 3, 4, "Absolute"),        \* 0xCD
    OpCode_new(221, "CMP", 3, 4, "Absolute_X"),      \* 0xDD
    OpCode_new(217, "CMP", 3, 4, "Absolute_Y"),      \* 0xD9
    OpCode_new(193, "CMP", 2, 6, "Indirect_X"),      \* 0xC1
    OpCode_new(209, "CMP", 2, 5, "Indirect_Y"),      \* 0xD1
    OpCode_new(224, "CPX", 2, 2, "Immediate"),       \* 0xE0
    OpCode_new(228, "CPX", 2, 3, "ZeroPage"),        \* 0xE4
    OpCode_new(236, "CPX", 3, 4, "Absolute"),        \* 0xEC
    OpCode_new(192, "CPY", 2, 2, "Immediate"),       \* 0xC0
    OpCode_new(196, "CPY", 2, 3, "ZeroPage"),        \* 0xC4
    OpCode_new(204, "CPY", 3, 4, "Absolute"),        \* 0xCC
    OpCode_new(198, "DEC", 2, 5, "ZeroPage"),        \* 0xC6
    OpCode_new(214, "DEC", 2, 6, "ZeroPage_X"),      \* 0xD6
    OpCode_new(206, "DEC", 3, 6, "Absolute"),        \* 0xCE
    OpCode_new(222, "DEC", 3, 7, "Absolute_X"),      \* 0xDE
    OpCode_new(202, "DEX", 1, 2, "NoneAddressing"),  \* 0xCA
    OpCode_new(136, "DEY", 1, 2, "NoneAddressing"),  \* 0x88
    OpCode_new( 73, "EOR", 2, 2, "Immediate"),       \* 0x49
    OpCode_new( 69, "EOR", 2, 3, "ZeroPage"),        \* 0x45
    OpCode_new( 85, "EOR", 2, 4, "ZeroPage_X"),      \* 0x55
    OpCode_new( 77, "EOR", 3, 4, "Absolute"),        \* 0x4D
    OpCode_new( 93, "EOR", 3, 4, "Absolute_X"),      \* 0x5D
    OpCode_new( 89, "EOR", 3, 4, "Absolute_Y"),      \* 0x59
    OpCode_new( 65, "EOR", 2, 6, "Indirect_X"),      \* 0x41
    OpCode_new( 81, "EOR", 2, 5, "Indirect_Y"),      \* 0x51
    OpCode_new(230, "INC", 2, 5, "ZeroPage"),        \* 0xE6
    OpCode_new(246, "INC", 2, 6, "ZeroPage_X"),      \* 0xF6
    OpCode_new(238, "INC", 3, 6, "Absolute"),        \* 0xEE
    OpCode_new(254, "INC", 3, 7, "Absolute_X"),      \* 0xFE
    OpCode_new(232, "INX", 1, 2, "NoneAddressing"),  \* 0xE8
    OpCode_new(200, "INY", 1, 2, "NoneAddressing"),  \* 0xC8
    OpCode_new( 76, "JMP", 3, 3, "Absolute"),        \* 0x4C
    OpCode_new(108, "JMP", 3, 5, "NoneAddressing"),  \* 0x6C
    OpCode_new( 32, "JSR", 3, 6, "Absolute"),        \* 0x20
    OpCode_new(169, "LDA", 2, 2, "Immediate"),       \* 0xA9
    OpCode_new(165, "LDA", 2, 3, "ZeroPage"),        \* 0xA5
    OpCode_new(181, "LDA", 2, 4, "ZeroPage_X"),      \* 0xB5
    OpCode_new(173, "LDA", 3, 4, "Absolute"),        \* 0xAD
    OpCode_new(189, "LDA", 3, 4, "Absolute_X"),      \* 0xBD
    OpCode_new(185, "LDA", 3, 4, "Absolute_Y"),      \* 0xB9
    OpCode_new(161, "LDA", 2, 6, "Indirect_X"),      \* 0xA1
    OpCode_new(177, "LDA", 2, 5, "Indirect_Y"),      \* 0xB1
    OpCode_new(162, "LDX", 2, 2, "Immediate"),       \* 0xA2
    OpCode_new(166, "LDX", 2, 3, "ZeroPage"),        \* 0xA6
    OpCode_new(182, "LDX", 2, 4, "ZeroPage_Y"),      \* 0xB6
    OpCode_new(174, "LDX", 3, 4, "Absolute"),        \* 0xAE
    OpCode_new(190, "LDX", 3, 4, "Absolute_Y"),      \* 0xBE
    OpCode_new(160, "LDY", 2, 2, "Immediate"),       \* 0xA0
    OpCode_new(164, "LDY", 2, 3, "ZeroPage"),        \* 0xA4
    OpCode_new(180, "LDY", 2, 4, "ZeroPage_X"),      \* 0xB4
    OpCode_new(172, "LDY", 3, 4, "Absolute"),        \* 0xAC
    OpCode_new(188, "LDY", 3, 4, "Absolute_X"),      \* 0xBC
    OpCode_new( 74, "LSR", 1, 2, "Accumulator"),     \* 0x4A
    OpCode_new( 70, "LSR", 2, 5, "ZeroPage"),        \* 0x46
    OpCode_new( 86, "LSR", 2, 6, "ZeroPage_X"),      \* 0x56
    OpCode_new( 78, "LSR", 3, 6, "Absolute"),        \* 0x4E
    OpCode_new( 94, "LSR", 3, 7, "Absolute_X"),      \* 0x5E
    OpCode_new(234, "NOP", 1, 2, "NoneAddressing"),  \* 0xEA
    OpCode_new(  9, "ORA", 2, 2, "Immediate"),       \* 0x09
    OpCode_new(  5, "ORA", 2, 3, "ZeroPage"),        \* 0x05
    OpCode_new( 21, "ORA", 2, 4, "ZeroPage_X"),      \* 0x15
    OpCode_new( 13, "ORA", 3, 4, "Absolute"),        \* 0x0D
    OpCode_new( 29, "ORA", 3, 4, "Absolute_X"),      \* 0x1D
    OpCode_new( 25, "ORA", 3, 4, "Absolute_Y"),      \* 0x19
    OpCode_new(  1, "ORA", 2, 6, "Indirect_X"),      \* 0x01
    OpCode_new( 17, "ORA", 2, 5, "Indirect_Y"),      \* 0x11
    OpCode_new( 72, "PHA", 1, 3, "NoneAddressing"),  \* 0x48
    OpCode_new(  8, "PHP", 1, 3, "NoneAddressing"),  \* 0x08
    OpCode_new(104, "PLA", 1, 4, "NoneAddressing"),  \* 0x68
    OpCode_new( 40, "PLP", 1, 4, "NoneAddressing"),  \* 0x28
    OpCode_new( 42, "ROL", 1, 2, "Accumulator"),     \* 0x2A
    OpCode_new( 38, "ROL", 2, 5, "ZeroPage"),        \* 0x26
    OpCode_new( 54, "ROL", 2, 6, "ZeroPage_X"),      \* 0x36
    OpCode_new( 46, "ROL", 3, 6, "Absolute"),        \* 0x2E
    OpCode_new( 62, "ROL", 3, 7, "Absolute_X"),      \* 0x3E
    OpCode_new(106, "ROR", 1, 2, "Accumulator"),     \* 0x6A
    OpCode_new(102, "ROR", 2, 5, "ZeroPage"),        \* 0x66
    OpCode_new(118, "ROR", 2, 6, "ZeroPage_X"),      \* 0x76
    OpCode_new(110, "ROR", 3, 6, "Absolute"),        \* 0x6E
    OpCode_new(126, "ROR", 3, 7, "Absolute_X"),      \* 0x7E
    OpCode_new( 64, "RTI", 1, 6, "NoneAddressing"),  \* 0x40
    OpCode_new( 96, "RTS", 1, 6, "NoneAddressing"),  \* 0x60
    OpCode_new(233, "SBC", 2, 2, "Immediate"),       \* 0xE9
    OpCode_new(229, "SBC", 2, 3, "ZeroPage"),        \* 0xE5
    OpCode_new(245, "SBC", 2, 4, "ZeroPage_X"),      \* 0xF5
    OpCode_new(237, "SBC", 3, 4, "Absolute"),        \* 0xED
    OpCode_new(253, "SBC", 3, 4, "Absolute_X"),      \* 0xFD
    OpCode_new(249, "SBC", 3, 4, "Absolute_Y"),      \* 0xF9
    OpCode_new(225, "SBC", 2, 6, "Indirect_X"),      \* 0xE1
    OpCode_new(241, "SBC", 2, 5, "Indirect_Y"),      \* 0xF1
    OpCode_new( 56, "SEC", 1, 2, "NoneAddressing"),  \* 0x38
    OpCode_new(248, "SED", 1, 2, "NoneAddressing"),  \* 0xF8
    OpCode_new(120, "SEI", 1, 2, "NoneAddressing"),  \* 0x78
    OpCode_new(133, "STA", 2, 3, "ZeroPage"),        \* 0x85
    OpCode_new(149, "STA", 2, 4, "ZeroPage_X"),      \* 0x95
    OpCode_new(141, "STA", 3, 4, "Absolute"),        \* 0x8D
    OpCode_new(157, "STA", 3, 5, "Absolute_X"),      \* 0x9D
    OpCode_new(153, "STA", 3, 5, "Absolute_Y"),      \* 0x99
    OpCode_new(129, "STA", 2, 6, "Indirect_X"),      \* 0x81
    OpCode_new(145, "STA", 2, 6, "Indirect_Y"),      \* 0x91
    OpCode_new(134, "STX", 2, 3, "ZeroPage"),        \* 0x86
    OpCode_new(150, "STX", 2, 4, "ZeroPage_Y"),      \* 0x96
    OpCode_new(142, "STX", 3, 4, "Absolute"),        \* 0x8E
    OpCode_new(132, "STY", 2, 3, "ZeroPage"),        \* 0x84
    OpCode_new(148, "STY", 2, 4, "ZeroPage_X"),      \* 0x94
    OpCode_new(140, "STY", 3, 4, "Absolute"),        \* 0x8C
    OpCode_new(170, "TAX", 1, 2, "NoneAddressing"),  \* 0xAA
    OpCode_new(168, "TAY", 1, 2, "NoneAddressing"),  \* 0xA8
    OpCode_new(186, "TSX", 1, 2, "NoneAddressing"),  \* 0xBA
    OpCode_new(138, "TXA", 1, 2, "NoneAddressing"),  \* 0x8A
    OpCode_new(154, "TXS", 1, 2, "NoneAddressing"),  \* 0x9A
    OpCode_new(152, "TYA", 1, 2, "NoneAddressing"),  \* 0x98
    OpCode_new( 11, "AAC", 2, 2, "Immediate"),       \* 0x0B
    OpCode_new( 43, "AAC", 2, 2, "Immediate"),       \* 0x2B
    OpCode_new(135, "AAX", 2, 3, "ZeroPage"),        \* 0x87
    OpCode_new(151, "AAX", 2, 4, "ZeroPage_Y"),      \* 0x97
    OpCode_new(131, "AAX", 2, 6, "Indirect_X"),      \* 0x83
    OpCode_new(143, "AAX", 3, 4, "Absolute"),        \* 0x8F
    OpCode_new(107, "ARR", 2, 2, "Immediate"),       \* 0x6B
    OpCode_new( 75, "ASR", 2, 2, "Immediate"),       \* 0x4B
    OpCode_new(171, "ATX", 2, 2, "Immediate"),       \* 0xAB
    OpCode_new(159, "AXA", 2, 5, "Absolute_Y"),      \* 0x9F
    OpCode_new(147, "AXA", 2, 6, "Indirect_Y"),      \* 0x93
    OpCode_new(203, "AXS", 2, 2, "Immediate"),       \* 0xCB
    OpCode_new(199, "DCP", 2, 5, "ZeroPage"),        \* 0xC7
    OpCode_new(215, "DCP", 2, 6, "ZeroPage_X"),      \* 0xD7
    OpCode_new(207, "DCP", 3, 6, "Absolute"),        \* 0xCF
    OpCode_new(223, "DCP", 3, 7, "Absolute_X"),      \* 0xDF
    OpCode_new(219, "DCP", 3, 7, "Absolute_Y"),      \* 0xDB
    OpCode_new(195, "DCP", 2, 8, "Indirect_X"),      \* 0xC3
    OpCode_new(211, "DCP", 2, 8, "Indirect_Y"),      \* 0xD3
    OpCode_new(  4, "DOP", 2, 3, "ZeroPage"),        \* 0x04
    OpCode_new( 20, "DOP", 2, 4, "ZeroPage_X"),      \* 0x14
    OpCode_new( 52, "DOP", 2, 4, "ZeroPage_X"),      \* 0x34
    OpCode_new( 68, "DOP", 2, 3, "ZeroPage"),        \* 0x44
    OpCode_new( 84, "DOP", 2, 4, "ZeroPage_X"),      \* 0x54
    OpCode_new(100, "DOP", 2, 3, "ZeroPage"),        \* 0x64
    OpCode_new(116, "DOP", 2, 4, "ZeroPage_X"),      \* 0x74
    OpCode_new(128, "DOP", 2, 2, "Immediate"),       \* 0x80
    OpCode_new(130, "DOP", 2, 2, "Immediate"),       \* 0x82
    OpCode_new(137, "DOP", 2, 2, "Immediate"),       \* 0x89
    OpCode_new(194, "DOP", 2, 2, "Immediate"),       \* 0xC2
    OpCode_new(212, "DOP", 2, 4, "ZeroPage_X"),      \* 0xD4
    OpCode_new(226, "DOP", 2, 2, "Immediate"),       \* 0xE2
    OpCode_new(244, "DOP", 2, 4, "ZeroPage_X"),      \* 0xF4
    OpCode_new(231, "ISC", 2, 5, "ZeroPage"),        \* 0xE7
    OpCode_new(247, "ISC", 2, 6, "ZeroPage_X"),      \* 0xF7
    OpCode_new(239, "ISC", 3, 6, "Absolute"),        \* 0xEF
    OpCode_new(255, "ISC", 3, 7, "Absolute_Y"),      \* 0xFF
    OpCode_new(251, "ISC", 3, 7, "Absolute_X"),      \* 0xFB
    OpCode_new(227, "ISC", 2, 8, "Indirect_X"),      \* 0xE3
    OpCode_new(243, "ISC", 2, 9, "Indirect_Y"),      \* 0xF3
    OpCode_new(  2, "KIL", 1, 0, "NoneAddressing"),  \* 0x02
    OpCode_new( 18, "KIL", 1, 0, "NoneAddressing"),  \* 0x12
    OpCode_new( 34, "KIL", 1, 0, "NoneAddressing"),  \* 0x22
    OpCode_new( 50, "KIL", 1, 0, "NoneAddressing"),  \* 0x32
    OpCode_new( 66, "KIL", 1, 0, "NoneAddressing"),  \* 0x42
    OpCode_new( 82, "KIL", 1, 0, "NoneAddressing"),  \* 0x52
    OpCode_new( 98, "KIL", 1, 0, "NoneAddressing"),  \* 0x62
    OpCode_new(114, "KIL", 1, 0, "NoneAddressing"),  \* 0x72
    OpCode_new(146, "KIL", 1, 0, "NoneAddressing"),  \* 0x92
    OpCode_new(178, "KIL", 1, 0, "NoneAddressing"),  \* 0xB2
    OpCode_new(210, "KIL", 1, 0, "NoneAddressing"),  \* 0xD2
    OpCode_new(242, "KIL", 1, 0, "NoneAddressing"),  \* 0xF2
    OpCode_new(187, "LAR", 3, 4, "Absolute_Y"),      \* 0xBB
    OpCode_new(167, "LAX", 2, 3, "ZeroPage"),        \* 0xA7
    OpCode_new(183, "LAX", 2, 3, "ZeroPage_Y"),      \* 0xB7
    OpCode_new(175, "LAX", 2, 3, "Absolute"),        \* 0xAF
    OpCode_new(191, "LAX", 2, 3, "Absolute_Y"),      \* 0xBF
    OpCode_new(163, "LAX", 2, 3, "Indirect_X"),      \* 0xA3
    OpCode_new(179, "LAX", 2, 3, "Indirect_Y"),      \* 0xB3
    OpCode_new( 26, "NOP", 1, 2, "NoneAddressing"),  \* 0x1A
    OpCode_new( 58, "NOP", 1, 2, "NoneAddressing"),  \* 0x3A
    OpCode_new( 90, "NOP", 1, 2, "NoneAddressing"),  \* 0x5A
    OpCode_new(122, "NOP", 1, 2, "NoneAddressing"),  \* 0x7A
    OpCode_new(218, "NOP", 1, 2, "NoneAddressing"),  \* 0xDA
    OpCode_new(250, "NOP", 1, 2, "NoneAddressing"),  \* 0xFA
    OpCode_new( 39, "RLA", 2, 5, "ZeroPage"),        \* 0x27
    OpCode_new( 55, "RLA", 2, 6, "ZeroPage_X"),      \* 0x37
    OpCode_new( 47, "RLA", 3, 6, "Absolute"),        \* 0x2F
    OpCode_new( 63, "RLA", 3, 7, "Absolute_X"),      \* 0x3F
    OpCode_new( 59, "RLA", 3, 7, "Absolute_Y"),      \* 0x3B
    OpCode_new( 35, "RLA", 2, 8, "Indirect_X"),      \* 0x23
    OpCode_new( 51, "RLA", 2, 8, "Indirect_Y"),      \* 0x33
    OpCode_new(103, "RRA", 2, 5, "ZeroPage"),        \* 0x67
    OpCode_new(119, "RRA", 2, 6, "ZeroPage_X"),      \* 0x77
    OpCode_new(111, "RRA", 3, 6, "Absolute"),        \* 0x6F
    OpCode_new(127, "RRA", 3, 7, "Absolute_X"),      \* 0x7F
    OpCode_new(123, "RRA", 3, 7, "Absolute_Y"),      \* 0x7B
    OpCode_new( 99, "RRA", 2, 8, "Indirect_X"),      \* 0x63
    OpCode_new(115, "RRA", 2, 8, "Indirect_Y"),      \* 0x73
    OpCode_new(235, "SBC", 2, 2, "Immediate"),       \* 0xEB
    OpCode_new(  7, "SLO", 2, 5, "ZeroPage"),        \* 0x07
    OpCode_new( 23, "SLO", 2, 6, "ZeroPage_X"),      \* 0x17
    OpCode_new( 15, "SLO", 3, 6, "Absolute"),        \* 0x0F
    OpCode_new( 31, "SLO", 3, 7, "Absolute_X"),      \* 0x1F
    OpCode_new( 27, "SLO", 3, 7, "Absolute_Y"),      \* 0x1B
    OpCode_new(  3, "SLO", 2, 8, "Indirect_X"),      \* 0x03
    OpCode_new( 19, "SLO", 2, 8, "Indirect_Y"),      \* 0x13
    OpCode_new( 71, "SRE", 2, 5, "ZeroPage"),        \* 0x47
    OpCode_new( 87, "SRE", 2, 6, "ZeroPage_X"),      \* 0x57
    OpCode_new( 79, "SRE", 3, 6, "Absolute"),        \* 0x4F
    OpCode_new( 95, "SRE", 3, 7, "Absolute_X"),      \* 0x5F
    OpCode_new( 91, "SRE", 3, 7, "Absolute_Y"),      \* 0x5B
    OpCode_new( 67, "SRE", 2, 8, "Indirect_X"),      \* 0x43
    OpCode_new( 83, "SRE", 2, 8, "Indirect_Y"),      \* 0x53
    OpCode_new(158, "SXA", 3, 5, "Absolute_Y"),      \* 0x9E
    OpCode_new(156, "SYA", 3, 5, "Absolute_X"),      \* 0x9C
    OpCode_new( 12, "TOP", 3, 4, "Absolute"),        \* 0x0C
    OpCode_new( 28, "TOP", 3, 4, "Absolute_X"),      \* 0x1C
    OpCode_new( 60, "TOP", 3, 4, "Absolute_X"),      \* 0x3C
    OpCode_new( 92, "TOP", 3, 4, "Absolute_X"),      \* 0x5C
    OpCode_new(124, "TOP", 3, 4, "Absolute_X"),      \* 0x7C
    OpCode_new(220, "TOP", 3, 4, "Absolute_X"),      \* 0xDC
    OpCode_new(252, "TOP", 3, 4, "Absolute_X"),      \* 0xFC
    OpCode_new(139, "XAA", 2, 2, "Immediate"),       \* 0x8B
    OpCode_new(155, "XAS", 3, 2, "Absolute_Y")       \* 0x9B
>>

\* an iteration of the loop that builds the map, with the key cut to 7 bits
opcodes_map_insert_7bit(acc, cpuop) ==
    IF (cpuop.code % 128) \in DOMAIN acc.map
    THEN [acc EXCEPT !.fatal = "Duplicate opcode"]
    ELSE [acc EXCEPT !.map = [c \in (DOMAIN @) \cup {cpuop.code % 128} |->
                                 IF c = cpuop.code % 128 THEN cpuop ELSE @[c]]]

\* an iteration of the loop that builds the map: panic!("Duplicate opcode")
\* when the key is there, map.insert(cpuop.code, cpuop) otherwise
opcodes_map_insert(acc, cpuop) ==
    IF cpuop.code \in DOMAIN acc.map
    THEN [acc EXCEPT !.fatal = "Duplicate opcode"]
    ELSE [acc EXCEPT !.map = [c \in (DOMAIN @) \cup {cpuop.code} |->
                                 IF c = cpuop.code THEN cpuop ELSE @[c]]]

\* OPCODES_MAP.get(&code)
opcodes_map_get(map, code) == IF code \in DOMAIN map THEN Some(map[code]) ELSE None

(***************************************************************************)
(* The first use of OPCODES_MAP runs the loop over CPU_OPCODES, one row a  *)
(* step; lookups follow when the map is built.  memobs is the loop: the    *)
(* rows done, the map so far and the panic, if any.                        *)
(***************************************************************************)
MaxLookups == 1

OpcodeBytes == 0..255

MapObs0 == [rows |-> 0, map |-> <<>>, fatal |-> "none", lookups |-> 0, code |-> 0]

InitOpcodes ==
    /\ joypad = Joypad_new
    /\ ppu = PPU_new_empty_rom
    /\ bus = Bus_new
    /\ cpu = CPU_new
    /\ build = FALSE
    /\ fatal = "none"
    /\ ret = None
    /\ jpobs = JpObs0
    /\ frobs = FrObs0
    /\ cpuobs = CpuObs0
    /\ memobs = MapObs0

OpcodeInsert ==
    /\ fatal = "none"
    /\ memobs.rows < Len(CPU_OPCODES)
    /\ LET becomes(acc) ==
               /\ memobs' = [acc EXCEPT !.rows = @ + 1]
               /\ fatal' = acc.fatal
       IN  becomes(opcodes_map_insert(memobs, CPU_OPCODES[memobs.rows + 1]))
    /\ UNCHANGED <<joypad, ppu, bus, cpu, build, ret, jpobs, frobs, cpuobs>>

OpcodeLookup ==
    /\ fatal = "none"
    /\ memobs.rows = Len(CPU_OPCODES)
    /\ memobs.lookups < MaxLookups
    /\ \E code \in OpcodeBytes :
          /\ ret' = opcodes_map_get(memobs.map, code)
          /\ memobs' = [memobs EXCEPT !.lookups = @ + 1, !.code = code]
    /\ UNCHANGED <<joypad, ppu, bus, cpu, build, fatal, jpobs, frobs, cpuobs>>

NextOpcodes ==
    \/ OpcodeInsert
    \/ OpcodeLookup

SpecOpcodes == InitOpcodes /\ [][NextOpcodes]_vars

\* C20: the opcode table holds exactly one descriptor for every opcode byte
\* 0..255: building the map never meets a duplicate, the finished map has
\* all 256 bytes as keys, and every lookup returns the one row of the table
\* with that code.
C20_OnePerByte ==
    /\ fatal = "none"
    /\ Cardinality(DOMAIN memobs.map) = memobs.rows
    /\ memobs.rows = Len(CPU_OPCODES) =>
          /\ DOMAIN memobs.map = OpcodeBytes
          /\ \A c \in OpcodeBytes :
                Cardinality({i \in 1..Len(CPU_OPCODES) : CPU_OPCODES[i].code = c}) = 1
    /\ memobs.lookups >= 1 =>
          /\ ret # None
          /\ ret[1].code = memobs.code

\* the map is built, and the lookup of $FF returned the row ISC Absolute_Y
C20_Witness ==
    /\ memobs.rows = 256
    /\ memobs.lookups = 1
    /\ memobs.code = 255
    /\ ret # None
    /\ ret[1].code = 255
    /\ ret[1].instruction = "ISC"
    /\ ret[1].mode = "Absolute_Y"

(***************************************************************************)
(* CPU::tick of the standalone core (cpu6502/src/cpu.rs).  The table the   *)
(* core indexes by the opcode byte has the rows of CPU_OPCODES; ISC and    *)
(* AAX are the table's names of the instructions tick calls ISB and SAX.   *)
(***************************************************************************)
DECIMAL_MODE == 8               \* CpuFlags 0b00001000
VECTOR_RESET_HANDLER == 65532   \* $FFFC

OPCODES_LIST ==
    [code \in 0..255 |->
        CPU_OPCODES[CHOOSE i \in 1..Len(CPU_OPCODES) : CPU_OPCODES[i].code = code]]

Core_page_crossed(k, mode) ==
    LET x == Register_read(k.register, "X")
        y == Register_read(k.register, "Y")
        indexed(base, i) ==
            [k |-> base.k, ret |-> page_cross(base.ret, (base.ret + i) % U16)]
        deref(v) == Core_deref_zero_page(v.k, v.ret)
    IN  CASE mode = "Absolute_X" -> indexed(Core_mem_read_u16(k, k.register.pc), x)
          [] mode = "Absolute_Y" -> indexed(Core_mem_read_u16(k, k.register.pc), y)
          [] mode = "Indirect_Y" -> indexed(deref(Core_mem_read(k, k.register.pc)), y)
          [] OTHER -> [k |-> k, ret |-> FALSE]

Core_tick_on_page_cross(k, mode) ==
    LET bump(c) == IF c.ret THEN [c.k EXCEPT !.cycles = @ + 1] ELSE c.k
    IN  bump(Core_page_crossed(k, mode))

Core_transfer(k, source, target) ==
    [k EXCEPT !.register = Register_write(@, target, Register_read(@, source))]

Core_load(k, target, mode) ==
    LET write(v) ==
            Core_tick_on_page_cross(
                [v.k EXCEPT !.register = Register_write(@, target, v.ret)], mode)
        value(addr) == Core_mem_read(addr.k, addr.ret)
    IN  write(value(Core_get_operand_address(k, mode)))

Core_increment_register(k, target) ==
    [k EXCEPT !.register = Register_write(@, target, (Register_read(@, target) + 1) % U8)]

Core_decrement_register(k, target) ==
    [k EXCEPT !.register = Register_write(@, target, (Register_read(@, target) - 1) % U8)]

\* increment_memory (by = 1) and decrement_memory (by = -1)
Core_step_memory(k, mode, by) ==
    LET flags(w, value) ==
            [w EXCEPT !.register = update_zero_and_negative_flags(@, value)]
        write(v, addr, value) == flags(Core_mem_write(v.k, addr, value), value)
        value(addr) == write(Core_mem_read(addr.k, addr.ret), addr.ret,
                             (Core_mem_read(addr.k, addr.ret).ret + by) % U8)
    IN  value(Core_get_operand_address(k, mode))

Core_increment_memory(k, mode) == Core_step_memory(k, mode, 1)

Core_decrement_memory(k, mode) == Core_step_memory(k, mode, -1)

Core_store(k, source, mode) ==
    LET write(addr) ==
            Core_mem_write(addr.k, addr.ret, Register_read(addr.k.register, source))
    IN  write(Core_get_operand_address(k, mode))

Core_compare(k, source, mode) ==
    LET flags(w, with, data) ==
            [w EXCEPT !.register =
                update_zero_and_negative_flags(
                    [@ EXCEPT !.status = set(@, CARRY, with >= data)],
                    (with - data) % U8)]
        compare(v) == flags(v.k, Register_read(v.k.register, source), v.ret)
        data(addr) == Core_mem_read(addr.k, addr.ret)
    IN  compare(data(Core_get_operand_address(k, mode)))

\* logic with the closure |a, b| a & b ("AND"), a ^ b ("EOR") or a | b ("ORA")
Core_logic(k, mode, op) ==
    LET apply(a, b) ==
            CASE op = "AND" -> BitAnd(a, b)
              [] op = "EOR" -> BitXor(a, b)
              [] op = "ORA" -> BitOr(a, b)
        write(v) ==
            [v.k EXCEPT !.register =
                Register_write(@, "A", apply(Register_read(@, "A"), v.ret))]
        data(addr) == Core_mem_read(addr.k, addr.ret)
    IN  write(data(Core_get_operand_address(k, mode)))

\* asl, lsr, rol and ror: the pair (result, carry)
shift_op(op, data, carry) ==
    CASE op = "ASL" -> [result |-> (data * 2) % U8, carry |-> Shr(data, 7) = 1]
      [] op = "LSR" -> [result |-> Shr(data, 1), carry |-> BitAnd(data, 1) = 1]
      [] op = "ROL" -> [result |-> BitOr((data * 2) % U8, IF carry THEN 1 ELSE 0),
                        carry |-> Shr(data, 7) = 1]
      [] op = "ROR" -> [result |-> BitOr(Shr(data, 1), IF carry THEN 128 ELSE 0),
                        carry |-> BitAnd(data, 1) = 1]

Core_arithmetic_accumulator(k, op) ==
    LET write(r) ==
            [k EXCEPT !.register =
                Register_write([@ EXCEPT !.status = set(@, CARRY, r.carry)], "A", r.result)]
    IN  write(shift_op(op, Register_read(k.register, "A"), contains(k.register.status, CARRY)))

Core_arithmetic_mem(k, mode, op) ==
    LET flags(w, r) ==
            [w EXCEPT !.register = update_zero_and_negative_flags(@, r.result)]
        carry(w, r) == [w EXCEPT !.register.status = set(@, CARRY, r.carry)]
        write(v, addr, r) == flags(Core_mem_write(carry(v.k, r), addr, r.result), r)
        shift(v, addr) ==
            write(v, addr, shift_op(op, v.ret, contains(v.k.register.status, CARRY)))
        data(addr) == shift(Core_mem_read(addr.k, addr.ret), addr.ret)
    IN  data(Core_get_operand_address(k, mode))

Core_arithmetic_shift(k, mode, op) ==
    IF mode = "Accumulator"
    THEN Core_arithmetic_accumulator(k, op)
    ELSE Core_arithmetic_mem(k, mode, op)

Core_bit(k, mode) ==
    LET flags(w, data) ==
            [w EXCEPT !.register.status =
                set(set(set(@, ZERO, BitAnd(Register_read(w.register, "A"), data) = 0),
                        NEGATIVE, BitAnd(data, 128) > 0),
                    OVERFLOW, BitAnd(data, 64) > 0)]
        test(v) == flags(v.k, v.ret)
        data(addr) == Core_mem_read(addr.k, addr.ret)
    IN  test(data(Core_get_operand_address(k, mode)))

Core_sax(k, mode) ==
    LET write(addr) ==
            Core_mem_write(addr.k, addr.ret,
                           BitAnd(Register_read(addr.k.register, "X"),
                                  Register_read(addr.k.register, "A")))
    IN  write(Core_get_operand_address(k, mode))

Core_dcp(k, mode) == Core_compare(Core_decrement_memory(k, mode), "A", mode)

Core_lax(k, mode) == Core_transfer(Core_load(k, "A", mode), "A", "X")

Core_isb(k, mode) == Core_sbc(Core_increment_memory(k, mode), mode)

Core_slo(k, mode) == Core_logic(Core_arithmetic_shift(k, mode, "ASL"), mode, "ORA")

Core_rla(k, mode) == Core_logic(Core_arithmetic_shift(k, mode, "ROL"), mode, "AND")

Core_sre(k, mode) == Core_logic(Core_arithmetic_shift(k, mode, "LSR"), mode, "EOR")

Core_rra(k, mode) == Core_adc(Core_arithmetic_shift(k, mode, "ROR"), mode)

Core_pla(k) ==
    LET write(v) == [v.k EXCEPT !.register = Register_write(@, "A", v.ret)]
    IN  write(Core_stack_pop(k))

Core_pha(k) == Core_stack_push(k, Register_read(k.register, "A"))

Core_plp(k) ==
    LET write(v) ==
            [v.k EXCEPT !.register =
                [Register_write(@, "STATUS", v.ret) EXCEPT
                    !.status = set(set(@, BREAK, FALSE), BREAK2, TRUE)]]
    IN  write(Core_stack_pop(k))

Core_php(k) == Core_stack_push(k, set(set(k.register.status, BREAK, TRUE), BREAK2, TRUE))

\* branch reading the displacement as an unsigned byte
Core_branch_unsigned(k, condition) ==
    IF condition
    THEN LET next(w) == (w.register.pc + 1) % U16
             to(w, jump_addr) ==
                 [w EXCEPT !.register.pc = jump_addr,
                           !.cycles = IF page_cross(next(w), jump_addr) THEN @ + 1 ELSE @]
             target(jump) == to(jump.k, (next(jump.k) + jump.ret) % U16)
             operand(w) == Core_mem_read(w, w.register.pc)
         IN  target(operand([k EXCEPT !.cycles = @ + 1]))
    ELSE k

Core_branch(k, condition) ==
    IF condition
    THEN LET offset(jump) ==
                 IF jump.ret >= 128 THEN jump.ret + 65280 ELSE jump.ret    \* as i8 as u16
             next(w) == (w.register.pc + 1) % U16
             to(w, jump_addr) ==
                 [w EXCEPT !.register.pc = jump_addr,
                           !.cycles = IF page_cross(next(w), jump_addr) THEN @ + 1 ELSE @]
             target(jump) == to(jump.k, (next(jump.k) + offset(jump)) % U16)
             operand(w) == Core_mem_read(w, w.register.pc)
         IN  target(operand([k EXCEPT !.cycles = @ + 1]))
    ELSE k

Core_jmp_absolute(k) ==
    LET jump(addr) == [addr.k EXCEPT !.register.pc = addr.ret]
    IN  jump(Core_get_operand_address(k, "Absolute"))

\* the sums of jsr and rts are plain u16 additions: past $FFFF they panic
\* where the build checks overflow and wrap where it does not
Core_jsr(k) ==
    LET jump(addr) == [addr.k EXCEPT !.register.pc = addr.ret]
        call(w) == jump(Core_get_operand_address(w, "Absolute"))
    IN  IF k.register.pc + 2 > 65535 /\ build
        THEN Core_panic(k, "attempt to add with overflow")
        ELSE call(Core_stack_push_u16(k, (k.register.pc + 2 - 1) % U16))

Core_rti(k) ==
    LET jump(v) == [v.k EXCEPT !.register.pc = v.ret]
    IN  jump(Core_stack_pop_u16(Core_plp(k)))

\* rts leaving pc at the word popped
Core_rts_no_increment(k) ==
    LET jump(v) == [v.k EXCEPT !.register.pc = v.ret]
    IN  jump(Core_stack_pop_u16(k))

Core_rts(k) ==
    LET jump(v) ==
            IF v.ret + 1 > 65535 /\ build
            THEN Core_panic(v.k, "attempt to add with overflow")
            ELSE [v.k EXCEPT !.register.pc = (v.ret + 1) % U16]
    IN  jump(Core_stack_pop_u16(k))

Core_flag(k, flag, on) == [k EXCEPT !.register.status = set(@, flag, on)]

\* the arms of `match opcode.instruction`, BRK apart
Core_execute(k, opcode) ==
    LET i == opcode.instruction
        mode == opcode.mode
        status == k.register.status
    IN  CASE i \in {"NOP", "DOP"} -> k
          [] i = "TOP" -> Core_tick_on_page_cross(k, mode)
          [] i \in {"AND", "EOR", "ORA"} ->
                Core_tick_on_page_cross(Core_logic(k, mode, i), mode)
          [] i = "AAX" -> Core_sax(k, mode)
          [] i = "ADC" -> Core_adc(k, mode)
          [] i = "SBC" -> Core_sbc(k, mode)
          [] i \in {"ASL", "LSR", "ROL", "ROR"} -> Core_arithmetic_shift(k, mode, i)
          [] i = "BIT" -> Core_bit(k, mode)
          [] i = "DEC" -> Core_decrement_memory(k, mode)
          [] i = "DEX" -> Core_decrement_register(k, "X")
          [] i = "DEY" -> Core_decrement_register(k, "Y")
          [] i = "INC" -> Core_increment_memory(k, mode)
          [] i = "INX" -> Core_increment_register(k, "X")
          [] i = "INY" -> Core_increment_register(k, "Y")
          [] i = "BCC" -> Core_branch(k, ~contains(status, CARRY))
          [] i = "BCS" -> Core_branch(k, contains(status, CARRY))
          [] i = "BNE" -> Core_branch(k, ~contains(status, ZERO))
          [] i = "BEQ" -> Core_branch(k, contains(status, ZERO))
          [] i = "BPL" -> Core_branch(k, ~contains(status, NEGATIVE))
          [] i = "BMI" -> Core_branch(k, contains(status, NEGATIVE))
          [] i = "BVC" -> Core_branch(k, ~contains(status, OVERFLOW))
          [] i = "BVS" -> Core_branch(k, contains(status, OVERFLOW))
          [] i = "JMP" -> IF mode = "Absolute" THEN Core_jmp_absolute(k)
                          ELSE Core_jmp_indirect(k)
          [] i = "JSR" -> Core_jsr(k)
          [] i = "RTI" -> Core_rti(k)
          [] i = "RTS" -> Core_rts(k)
          [] i = "PHA" -> Core_pha(k)
          [] i = "PHP" -> Core_php(k)
          [] i = "PLA" -> Core_pla(k)
          [] i = "PLP" -> Core_plp(k)
          [] i = "CMP" -> Core_tick_on_page_cross(Core_compare(k, "A", mode), mode)
          [] i = "CPX" -> Core_tick_on_page_cross(Core_compare(k, "X", mode), mode)
          [] i = "CPY" -> Core_tick_on_page_cross(Core_compare(k, "Y", mode), mode)
          [] i = "CLC" -> Core_flag(k, CARRY, FALSE)
          [] i = "CLD" -> Core_flag(k, DECIMAL_MODE, FALSE)
          [] i = "CLI" -> Core_flag(k, INTERRUPT_DISABLE, FALSE)
          [] i = "CLV" -> Core_flag(k, OVERFLOW, FALSE)
          [] i = "SEC" -> Core_flag(k, CARRY, TRUE)
          [] i = "SED" -> Core_flag(k, DECIMAL_MODE, TRUE)
          [] i = "SEI" -> Core_flag(k, INTERRUPT_DISABLE, TRUE)
          [] i = "LDA" -> Core_load(k, "A", mode)
          [] i = "LDX" -> Core_load(k, "X", mode)
          [] i = "LDY" -> Core_load(k, "Y", mode)
          [] i = "LAX" -> Core_lax(k, mode)
          [] i = "STA" -> Core_store(k, "A", mode)
          [] i = "STX" -> Core_store(k, "X", mode)
          [] i = "STY" -> Core_store(k, "Y", mode)
          [] i = "TAX" -> Core_transfer(k, "A", "X")
          [] i = "TAY" -> Core_transfer(k, "A", "Y")
          [] i = "TSX" -> Core_transfer(k, "SP", "X")
          [] i = "TXA" -> Core_transfer(k, "X", "A")
          [] i = "TXS" -> Core_transfer(k, "X", "SP")
          [] i = "TYA" -> Core_transfer(k, "Y", "A")
          [] i = "DCP" -> Core_dcp(k, mode)
          [] i = "ISC" -> Core_isb(k, mode)
          [] i = "SLO" -> Core_slo(k, mode)
          [] i = "RLA" -> Core_rla(k, mode)
          [] i = "SRE" -> Core_sre(k, mode)
          [] i = "RRA" -> Core_rra(k, mode)
          [] OTHER -> Core_panic(k, "Unknown opcode")

Core_tick(k) ==
    IF k.bus.fatal # "none" THEN k
    ELSE IF k.cycles > 0 THEN [k EXCEPT !.cycles = @ - 1]
    ELSE LET advance(w, opcode, program_counter_state) ==
                 IF w.bus.fatal # "none" THEN w
                 ELSE [w EXCEPT !.cycles = @ + opcode.cycles,
                                !.register.pc =
                                    IF program_counter_state = @
                                    THEN (@ + (opcode.len - 1)) % U16 ELSE @]
             dispatch(w, opcode) ==
                 IF opcode.instruction = "BRK"
                 THEN [w EXCEPT !.complete = TRUE]
                 ELSE advance(Core_execute(w, opcode), opcode, w.register.pc)
             fetch(code) ==
                 IF code.k.bus.fatal # "none" THEN code.k
                 ELSE dispatch([code.k EXCEPT !.register.pc = (@ + 1) % U16],
                               OPCODES_LIST[code.ret])
         IN  fetch(Core_mem_read(k, k.register.pc))

\* reset: a new register file with pc from the reset vector
Core_reset(k) ==
    LET load(v) == [v.k EXCEPT !.register = [Register_new EXCEPT !.pc = v.ret]]
    IN  load(Core_mem_read_u16(k, VECTOR_RESET_HANDLER))

RECURSIVE Core_write_program(_, _, _, _)
Core_write_program(k, base, program, pos) ==
    IF pos > Len(program) THEN k
    ELSE Core_write_program(Core_mem_write(k, (base + pos - 1) % U16, program[pos]),
                            base, program, pos + 1)

(***************************************************************************)
(* CPU::eval, the harness of the core's tests: the program is written at   *)
(* $0600, the core is reset, pc is set to $0600 and tick is called until   *)
(* complete is set, 1000 times at most.  The program is the loop of        *)
(* test_0xd0_bne_loop with the operand of its LDX drawn from LoopStarts.   *)
(***************************************************************************)
EvalTickLimit == 1000

LoopStarts == {3, 4, 8, 16}

BneLoop(start) == <<162, start, 202, 142, 0, 2, 224, 3, 208, 248, 142, 1, 2, 0>>

Core_eval_setup(k, program) ==
    [Core_reset(Core_write_program(k, ProgramBase, program, 1)) EXCEPT
        !.register.pc = ProgramBase]

InitEval ==
    /\ joypad = Joypad_new
    /\ ppu = PPU_new_empty_rom
    /\ bus = Bus_new
    /\ build = FALSE
    /\ fatal = "none"
    /\ ret = 0
    /\ jpobs = JpObs0
    /\ frobs = FrObs0
    /\ memobs = MemObs0
    /\ \E start \in LoopStarts :
          /\ cpu = Core_eval_setup(Core_new, BneLoop(start))
          /\ cpuobs = [start |-> start, instructions |-> 0]

\* an iteration of `while !self.complete && instructions < 1000`
EvalTick ==
    /\ ~cpu.complete
    /\ cpuobs.instructions < EvalTickLimit
    /\ cpu.bus.fatal = "none"
    /\ cpu' = Core_tick(cpu)
    /\ cpuobs' = [cpuobs EXCEPT !.instructions = @ + 1]
    /\ UNCHANGED <<joypad, ppu, bus, build, fatal, ret, jpobs, frobs, memobs>>

NextEval == EvalTick

SpecEval == InitEval /\ [][NextEval]_vars

\* C21: the run of A2 08 CA 8E 00 02 E0 03 D0 F8 8E 01 02 00 never panics and
\* never uses up the harness's 1000 ticks, and when its BRK has set complete,
\* X is 3 and the byte at $0201 is 3.
C21_BneLoop ==
    cpuobs.start = 8 =>
        /\ cpu.bus.fatal = "none"
        /\ cpuobs.instructions < EvalTickLimit
        /\ cpu.complete =>
              /\ Register_read(cpu.register, "X") = 3
              /\ Mem_get(cpu.bus.memory, 513) = 3

\* the run of the program has ended at its BRK, after five passes of the loop
C21_Witness ==
    /\ cpuobs.start = 8
    /\ cpu.complete
    /\ cpu.register.pc = ProgramBase + 14
    /\ Register_read(cpu.register, "X") = 3
    /\ Mem_get(cpu.bus.memory, 512) = 3
    /\ Mem_get(cpu.bus.memory, 513) = 3

(***************************************************************************)
(* One instruction of the standalone core at $0600, then ticks up to the   *)
(* fetch of the next opcode.  The instruction is any of the 256 opcode     *)
(* bytes with operand bytes lo and hi; X, Y and A hold index; the zero     *)
(* page cells lo and lo + 1 hold the pointer hi:lo; RTS and RTI find the   *)
(* word hi:lo (and RTI the status) pushed on the stack.  The observer      *)
(* keeps the case, the number of calls of tick, what the first call left   *)
(* (pending cycles, pc, the target of an indirect jump) and the call that  *)
(* fetched the second opcode.                                              *)
(***************************************************************************)
MaxCoreTicks == 12

CoreCodes == 0..255
CoreLows == {0, 1, 3, 128, 253, 255}
CoreHighs == {2, 6}
CoreIndexes == {0, 1, 255}
CoreStatuses == {36, 231}       \* Register::new()'s, and C, Z, V, N set besides

CoreCase(code, lo, hi, index, status) ==
    LET word == hi * 256 + lo
        regs(k) == [k EXCEPT !.register = [@ EXCEPT !.a = index, !.x = index, !.y = index,
                                                     !.status = status, !.pc = ProgramBase]]
        pointer(k) == Core_mem_write(Core_mem_write(k, lo, lo), (lo + 1) % U8, hi)
        stacked(k) ==
            CASE OPCODES_LIST[code].instruction = "RTS" -> Core_stack_push_u16(k, word)
              [] OPCODES_LIST[code].instruction = "RTI" ->
                    Core_stack_push(Core_stack_push_u16(k, word), status)
              [] OTHER -> k
    IN  stacked(pointer(Core_write_program(regs(Core_new), ProgramBase, <<code, lo, hi>>, 1)))

InitCore ==
    /\ joypad = Joypad_new
    /\ ppu = PPU_new_empty_rom
    /\ bus = Bus_new
    /\ build = FALSE
    /\ fatal = "none"
    /\ ret = 0
    /\ jpobs = JpObs0
    /\ frobs = FrObs0
    /\ memobs = MemObs0
    /\ \E code \in CoreCodes, lo \in CoreLows, hi \in CoreHighs,
          index \in CoreIndexes, status \in CoreStatuses :
          /\ cpu = CoreCase(code, lo, hi, index, status)
          /\ cpuobs = [code |-> code, lo |-> lo, hi |-> hi, index |-> index,
                       status |-> status, n |-> 0, executed |-> FALSE, cost |-> 0,
                       pc_after |-> 0, indirect |-> 0, second_at |-> 0]

\* a call of tick
CoreTick ==
    /\ cpu.bus.fatal = "none"
    /\ ~cpu.complete
    /\ cpuobs.second_at = 0
    /\ cpuobs.n < MaxCoreTicks
    /\ cpu' = Core_tick(cpu)
    /\ cpuobs' =
          IF cpuobs.n = 0
          THEN [cpuobs EXCEPT
                   !.n = 1,
                   !.executed = cpu'.bus.fatal = "none",
                   !.cost = cpu'.cycles,
                   !.pc_after = cpu'.register.pc,
                   !.indirect =
                       Core_jmp_indirect([cpu EXCEPT !.register.pc = (@ + 1) % U16]).register.pc]
          ELSE [cpuobs EXCEPT !.n = @ + 1,
                              !.second_at = IF cpu.cycles = 0 THEN cpuobs.n + 1 ELSE 0]
    /\ UNCHANGED <<joypad, ppu, bus, build, fatal, ret, jpobs, frobs, memobs>>

NextCore == CoreTick

SpecCore == InitCore /\ [][NextCore]_vars

CoreOp == OPCODES_LIST[cpuobs.code]
CoreWord == cpuobs.hi * 256 + cpuobs.lo
CoreFlag(flag) == contains(cpuobs.status, flag)
CoreBranches == {"BCC", "BCS", "BNE", "BEQ", "BPL", "BMI", "BVC", "BVS"}
CoreTaken ==
    CASE CoreOp.instruction = "BCC" -> ~CoreFlag(CARRY)
      [] CoreOp.instruction = "BCS" -> CoreFlag(CARRY)
      [] CoreOp.instruction = "BNE" -> ~CoreFlag(ZERO)
      [] CoreOp.instruction = "BEQ" -> CoreFlag(ZERO)
      [] CoreOp.instruction = "BPL" -> ~CoreFlag(NEGATIVE)
      [] CoreOp.instruction = "BMI" -> CoreFlag(NEGATIVE)
      [] CoreOp.instruction = "BVC" -> ~CoreFlag(OVERFLOW)
      [] CoreOp.instruction = "BVS" -> CoreFlag(OVERFLOW)
      [] OTHER -> FALSE
\* where the instruction sends the program counter, if it is a taken branch,
\* a jump, a call or a return; -1 if it is none of these
CoreTarget ==
    CASE CoreTaken -> (ProgramBase + 2 + as_i8(cpuobs.lo)) % U16
      [] CoreOp.instruction = "JMP" /\ CoreOp.mode = "Absolute" -> CoreWord
      [] CoreOp.instruction = "JMP" /\ CoreOp.mode # "Absolute" -> cpuobs.indirect
      [] CoreOp.instruction = "JSR" -> CoreWord
      [] CoreOp.instruction = "RTS" -> (CoreWord + 1) % U16
      [] CoreOp.instruction = "RTI" -> CoreWord
      [] OTHER -> -1

\* C22 as stated: a taken branch leaves pc at the address after its operand
\* plus the signed displacement, JMP, JSR, RTS and RTI leave pc at their target,
\* and every other instruction leaves pc at the address of its opcode plus its
\* length.
C22_AsStated ==
    cpuobs.executed =>
        IF CoreTarget # -1
        THEN cpuobs.pc_after = CoreTarget
        ELSE cpuobs.pc_after = ProgramBase + CoreOp.len

\* what the code does: the same, except that a target equal to the address of
\* the instruction's first operand byte is taken for "pc not changed" and
\* moved on by length - 1
C22_OwnOperandApart ==
    cpuobs.executed =>
        IF CoreTarget = -1
        THEN cpuobs.pc_after = ProgramBase + CoreOp.len
        ELSE IF CoreTarget = ProgramBase + 1
        THEN cpuobs.pc_after = ProgramBase + CoreOp.len
        ELSE cpuobs.pc_after = CoreTarget

\* C23 as stated: the instruction executed by call 1 with total cost N is
\* followed by N - 1 stalling calls, so that call N + 1 fetches the next opcode.
C23_AsStated ==
    cpuobs.second_at # 0 => cpuobs.second_at = cpuobs.cost + 1

\* what the code does: N stalling calls follow, call N + 2 fetches
C23_OneCallMore ==
    cpuobs.second_at # 0 => cpuobs.second_at = cpuobs.cost + 2

CoreIndexedModes == {"Absolute_X", "Absolute_Y", "Indirect_Y"}
CoreCrosses == page_cross(CoreWord, (CoreWord + cpuobs.index) % U16)

\* C24 as stated: with Absolute,X, Absolute,Y or Indirect,Y addressing the cost
\* is the base cost plus one when the indexed address is on another page than
\* the base address, and the base cost when it is on the same page.
C24_AsStated ==
    (cpuobs.executed /\ CoreOp.mode \in CoreIndexedModes) =>
        cpuobs.cost = CoreOp.cycles + (IF CoreCrosses THEN 1 ELSE 0)

\* what the code does: the cycle is added by the loads, the logical
\* operations, the compares and TOP, and by no other instruction
CorePageCrossInstructions ==
    {"LDA", "LDX", "LDY", "LAX", "AND", "EOR", "ORA", "CMP", "CPX", "CPY", "TOP"}
C24_LoadsLogicCompares ==
    (cpuobs.executed /\ CoreOp.mode \in CoreIndexedModes) =>
        cpuobs.cost = CoreOp.cycles +
            (IF CoreCrosses /\ CoreOp.instruction \in CorePageCrossInstructions
             THEN 1 ELSE 0)

(***************************************************************************)
(* The PPU's register window under register accesses and ticks.  The PPU   *)
(* has an 8 KiB pattern memory.  It starts after the writes of VramSetup   *)
(* (bytes stored through the Address and Data registers, then the Mask     *)
(* register) and a number of dots.  memobs keeps the last access, the one  *)
(* before it and the PPU before the last access.                           *)
(***************************************************************************)
MaxVramOps == 4

ChrRomLen == 8 * 1024
\* the mask written and the dots ticked before the first access: nothing shown
\* at construction, grayscale in vertical blank, the background shown at dot
\* 279 of the pre-render line
VramStarts == {<<0, 0>>, <<1, 82182>>, <<8, 89279>>}
VramAddressBytes == {5, 63, 99, 255}        \* $05 $3F $63 $FF
VramScrollBytes == {125}                    \* $7D: coarse 15, fine 5
VramControlBytes == {4}                     \* VRAM_ADD_INCREMENT
VramDataBytes == {102}                      \* $66
VramTickSizes == {255}

\* vram[$0305] = $66, vram[$0306] = $77, palette_table[0] = $FF,
\* palette_table[31] = $AA, chr_rom[5] = $11, then the mask
VramSetup(mask) ==
    LET w(p, addr, value) ==       \* one write after the other
            IF p.address_latch = 0 THEN PPU_mem_write(p, addr, value).ppu
            ELSE PPU_mem_write(p, addr, value).ppu
        cells(p) == w(w(w(w(p, 8198, 35), 8198, 5), 8199, 102), 8199, 119)
        first(p) == w(w(w(p, 8198, 63), 8198, 0), 8199, 255)
        last(p) == w(w(w(p, 8198, 63), 8198, 31), 8199, 170)
        pattern(p) == w(w(w(p, 8198, 0), 8198, 5), 8199, 17)
    IN  w(pattern(last(first(cells(PPU_new(ChrRomLen, "Horizontal"))))), 8193, mask)

VramObs0 ==
    [n |-> 0, op |-> "none", value |-> 0, prev_op |-> "none", prev_value |-> 0,
     before |-> PPU_new_empty_rom]

InitVram ==
    /\ joypad = Joypad_new
    /\ bus = Bus_new
    /\ cpu = CPU_new
    /\ build = FALSE
    /\ fatal = "none"
    /\ ret = 0
    /\ jpobs = JpObs0
    /\ frobs = FrObs0
    /\ cpuobs = CpuObs0
    /\ memobs = VramObs0
    /\ \E start \in VramStarts :
          ppu = PPU_tick_loop(VramSetup(start[1]), start[2], FALSE, FALSE).ppu

VramBecomes(r, op, value) ==
    /\ ppu' = r.ppu
    /\ ret' = r.ret
    /\ fatal' = r.fatal
    /\ memobs' = [n |-> memobs.n + 1, op |-> op, value |-> value,
                  prev_op |-> memobs.op, prev_value |-> memobs.value, before |-> ppu]
    /\ UNCHANGED <<joypad, bus, cpu, build, jpobs, frobs, cpuobs>>

VramAddress ==
    /\ fatal = "none" /\ memobs.n < MaxVramOps
    /\ \E value \in VramAddressBytes :
          VramBecomes(PPU_mem_write(ppu, 8198, value), "address", value)

VramScroll ==
    /\ fatal = "none" /\ memobs.n < MaxVramOps
    /\ \E value \in VramScrollBytes :
          VramBecomes(PPU_mem_write(ppu, 8197, value), "scroll", value)

VramControl ==
    /\ fatal = "none" /\ memobs.n < MaxVramOps
    /\ \E value \in VramControlBytes :
          VramBecomes(PPU_mem_write(ppu, 8192, value), "control", value)

VramStatus ==
    /\ fatal = "none" /\ memobs.n < MaxVramOps
    /\ VramBecomes(PPU_mem_read(ppu, 8194), "status", 0)

VramDataRead ==
    /\ fatal = "none" /\ memobs.n < MaxVramOps
    /\ VramBecomes(PPU_mem_read(ppu, 8199), "read", 0)

VramDataWrite ==
    /\ fatal = "none" /\ memobs.n < MaxVramOps
    /\ \E value \in VramDataBytes :
          VramBecomes(PPU_mem_write(ppu, 8199, value), "write", value)

VramTick ==
    /\ fatal = "none" /\ memobs.n < MaxVramOps
    /\ \E n \in VramTickSizes :
          LET ticked(r) == [ppu |-> r.ppu, ret |-> 0, fatal |-> r.fatal]
          IN  VramBecomes(ticked(PPU_tick(ppu, n, build)), "tick", n)

NextVram ==
    \/ VramAddress
    \/ VramScroll
    \/ VramControl
    \/ VramStatus
    \/ VramDataRead
    \/ VramDataWrite
    \/ VramTick

SpecVram == InitVram /\ [][NextVram]_vars

\* C25: a read of the status register returns the vblank flag as it was,
\* leaves the vblank flag clear and the write toggle clear, and the write to
\* Address or Scroll that follows it is a first write: it sets the toggle and
\* the high byte of the temporary address (Address) or the fine and coarse x
\* scroll (Scroll), and leaves the live VRAM pointer alone.
C25_StatusRead ==
    /\ memobs.op = "status" =>
          /\ contains(ret, VERTICAL_BLANK_STARTED)
                = contains(memobs.before.status, VERTICAL_BLANK_STARTED)
          /\ ~contains(ppu.status, VERTICAL_BLANK_STARTED)
          /\ ppu.address_latch = 0
    /\ (memobs.prev_op = "status" /\ memobs.op = "address" /\ fatal = "none") =>
          /\ ppu.address_latch = 1
          /\ ppu.vram_addr = memobs.before.vram_addr
          /\ Shr(get_bits(ppu.tram_addr), 8) = BitAnd(memobs.value, 63)
    /\ (memobs.prev_op = "status" /\ memobs.op = "scroll" /\ fatal = "none") =>
          /\ ppu.address_latch = 1
          /\ ppu.vram_addr = memobs.before.vram_addr
          /\ ppu.fine_x = BitAnd(memobs.value, 7)
          /\ ppu.tram_addr.coarse_x = Shr(memobs.value, 3)

\* the status register was read in vertical blank between the two writes of
\* an Address pair
C25_Witness ==
    /\ memobs.op = "status"
    /\ memobs.prev_op = "address"
    /\ memobs.before.address_latch = 1
    /\ contains(memobs.before.status, VERTICAL_BLANK_STARTED)
    /\ ret >= 128
    /\ ppu.address_latch = 0
    /\ ~contains(ppu.status, VERTICAL_BLANK_STARTED)

\* C26: every write to the Address register flips the write toggle; a first
\* write leaves the live VRAM pointer as it was; and the second write l right
\* after a first write h leaves the pointer at ((h AND $3F) * 256) + l.
C26_AddressPair ==
    (memobs.op = "address" /\ fatal = "none") =>
        /\ ppu.address_latch = 1 - memobs.before.address_latch
        /\ memobs.before.address_latch = 0 => ppu.vram_addr = memobs.before.vram_addr
        /\ (memobs.before.address_latch = 1 /\ memobs.prev_op = "address") =>
              get_bits(ppu.vram_addr) = BitAnd(memobs.prev_value, 63) * 256 + memobs.value

\* $63 and then $05 were written: the pointer is $2305
C26_Witness ==
    /\ memobs.op = "address" /\ memobs.prev_op = "address"
    /\ memobs.before.address_latch = 1
    /\ memobs.prev_value = 99 /\ memobs.value = 5
    /\ get_bits(ppu.vram_addr) = 8965
    /\ get_bits(memobs.before.vram_addr) # 8965

\* the byte that the PPU before the last access holds at address addr
VramByteAt(addr) ==
    IF addr <= 8191 THEN Mem_get(memobs.before.chr_rom, addr)
    ELSE IF addr <= 16127
    THEN Mem_get(memobs.before.vram, mirror_vram_addr(memobs.before, addr))
    ELSE Mem_get(memobs.before.palette_table, palette_index(addr))

VramPointer == get_bits(memobs.before.vram_addr)

\* C27 as stated: a Data read below $3F00 returns the buffer as the read
\* before left it and refills the buffer with the byte at the pointer; a Data
\* read at $3F00-$3FFF returns the palette byte at the pointer.
C27_AsStated ==
    (memobs.op = "read" /\ fatal = "none") =>
        /\ VramPointer < PALETTE_RAM_START =>
              /\ ret = memobs.before.internal_data_buf
              /\ ppu.internal_data_buf = VramByteAt(VramPointer)
        /\ VramPointer >= PALETTE_RAM_START => ret = VramByteAt(VramPointer)

\* what the code does at $3F00-$3FFF: the palette byte is cut to six bits,
\* and to bits 4 and 5 with the grayscale bit of the mask set
C27_PaletteMasked ==
    (memobs.op = "read" /\ fatal = "none") =>
        /\ VramPointer < PALETTE_RAM_START =>
              /\ ret = memobs.before.internal_data_buf
              /\ ppu.internal_data_buf = VramByteAt(VramPointer)
        /\ VramPointer >= PALETTE_RAM_START =>
              ret = BitAnd(VramByteAt(VramPointer),
                           IF is_grayscale(memobs.before.mask) THEN 48 ELSE 63)

\* C28 as stated: no read or write of the Data register ends in a panic.
C28_AsStated ==
    memobs.op \in {"read", "write"} => fatal = "none"

\* what the code does: the access panics exactly when the pointer is at or
\* above $4000
C28_PanicsAbove ==
    memobs.op \in {"read", "write"} => (fatal = "none" <=> VramPointer < 16384)

(***************************************************************************)
(* SpecDot: the PPU's counters and the sprite overflow flag, dot by dot.   *)
(* The PPU of new_empty_rom gets an OAM image by write_oam_dma, in which   *)
(* the first sprites have y = 0 and the others y = 255, and is ticked to   *)
(* its start: construction, or dot 1 of the last scanline of the frame.    *)
(* From there it is ticked by one dot or by 64.                            *)
(***************************************************************************)
MaxDotRun == 400

DotStarts == {0, 88660}
DotTickSizes == {1, 64}
SpriteCounts == {0, 8, 9, 64}

\* the page that write_oam_dma copies: sprites 0 .. count - 1 at y = 0
OamPage(count) == [i \in 1..256 |-> IF (i - 1) % 4 = 0 /\ (i - 1) \div 4 >= count THEN 255 ELSE 0]

InitDot ==
    /\ joypad = Joypad_new
    /\ bus = Bus_new
    /\ cpu = CPU_new
    /\ build = FALSE
    /\ fatal = "none"
    /\ ret = None
    /\ jpobs = JpObs0
    /\ frobs = FrObs0
    /\ cpuobs = CpuObs0
    /\ memobs = MemObs0
    /\ \E count \in SpriteCounts, start \in DotStarts :
          \E loaded \in {write_oam_dma(PPU_new_empty_rom, OamPage(count))} :
             ppu = PPU_tick_loop(loaded, start, FALSE, FALSE).ppu

DotTick ==
    /\ fatal = "none"
    /\ \E n \in DotTickSizes :
          /\ frobs.dots + n <= MaxDotRun
          /\ LET becomes(r) ==
                     /\ ppu' = r.ppu
                     /\ ret' = r.frame_complete
                     /\ fatal' = r.fatal
                     /\ frobs' = FrObserve(frobs, ppu, r.ppu, n, r.frame_complete, FALSE)
             IN  becomes(PPU_tick(ppu, n, build))
    /\ UNCHANGED <<joypad, bus, cpu, build, jpobs, cpuobs, memobs>>

NextDot == DotTick

SpecDot == InitDot /\ [][NextDot]_vars

\* C29: in every state of the PPU, the constructed one and the one after
\* every call of tick, the scanline counter is in -1 .. 260 and the dot
\* counter is in 0 .. 340.
C29_CounterRanges ==
    /\ ppu.scanline \in -1..260
    /\ ppu.cycles \in 0..340

\* the last dot of the last scanline, reached by calls of tick
C29_Witness ==
    /\ ppu.scanline = 260 /\ ppu.cycles = 340
    /\ frobs.dots > 0

\* lib.rs 324-336: the sprites of OAM whose rows cover the scanline
CoveringSprites(p, scanline) ==
    {i \in 0..63 :
        LET diff == scanline - Mem_get(p.oam_data, 4 * i)
        IN  diff >= 0 /\ diff < sprite_size(p.control)}

\* C30 as stated: past dot 257 of a visible scanline the sprite overflow flag
\* is set if more than 8 sprites of OAM cover the scanline, and clear if 8 or
\* fewer do.
C30_AsStated ==
    (ppu.scanline \in 0..239 /\ ppu.cycles > 257) =>
        (contains(ppu.status, SPRITE_OVERFLOW)
            <=> Cardinality(CoveringSprites(ppu, ppu.scanline)) > 8)

\* what the code does: sprite_count stays 0 and the flag is never set,
\* whatever number of sprites covers the scanline
C30_NeverSet == ~contains(ppu.status, SPRITE_OVERFLOW)

\* past dot 257 of a scanline that 9 or more sprites cover
C30_Covered ==
    /\ ppu.scanline \in 0..239 /\ ppu.cycles > 257
    /\ Cardinality(CoveringSprites(ppu, ppu.scanline)) > 8

(***************************************************************************)
(* SpecSprite: the sprite pattern fetch.  A PPU with 8 KiB of pattern      *)
(* memory gets its control register and, by write_oam_dma, an OAM image    *)
(* with sprite 0 set and the other sprites at y = 255, is ticked to its    *)
(* start and from there by 85 or 255 dots, in a build with overflow checks *)
(* and in one without.                                                     *)
(***************************************************************************)
MaxSpriteRun == 8000

SpriteTickSizes == {85, 255}

\* y, tile index and attributes of sprite 0, the control register, and the
\* dots ticked before the first step (81698: scanline 239, dot 200)
SpriteCases ==
    {[y |-> 0,   index |-> 0,   attributes |-> 0,   control |-> 0,  start |-> 0],
     [y |-> 100, index |-> 255, attributes |-> 64,  control |-> 8,  start |-> 0],
     [y |-> 0,   index |-> 1,   attributes |-> 128, control |-> 0,  start |-> 0],
     [y |-> 4,   index |-> 1,   attributes |-> 128, control |-> 0,  start |-> 0],
     [y |-> 0,   index |-> 255, attributes |-> 0,   control |-> 40, start |-> 0],
     [y |-> 0,   index |-> 2,   attributes |-> 128, control |-> 32, start |-> 0],
     [y |-> 239, index |-> 0,   attributes |-> 0,   control |-> 0,  start |-> 81698],
     [y |-> 232, index |-> 0,   attributes |-> 0,   control |-> 32, start |-> 81698]}

SpritePage(c) ==
    [i \in 1..256 |->
        IF i = 1 THEN c.y
        ELSE IF i = 2 THEN c.index
        ELSE IF i = 3 THEN c.attributes
        ELSE IF (i - 1) % 4 = 0 THEN 255 ELSE 0]

InitSprite ==
    /\ joypad = Joypad_new
    /\ bus = Bus_new
    /\ cpu = CPU_new
    /\ build \in BOOLEAN
    /\ fatal = "none"
    /\ ret = None
    /\ jpobs = JpObs0
    /\ frobs = FrObs0
    /\ cpuobs = CpuObs0
    /\ memobs = MemObs0
    /\ \E c \in SpriteCases :
          \E loaded \in {write_oam_dma(write_to_control(PPU_new(ChrRomLen, "Horizontal"),
                                                        c.control),
                                       SpritePage(c))} :
             ppu = PPU_tick_loop(loaded, c.start, FALSE, FALSE).ppu

SpriteTick ==
    /\ fatal = "none"
    /\ \E n \in SpriteTickSizes :
          /\ frobs.dots + n <= MaxSpriteRun
          /\ LET becomes(r) ==
                     /\ ppu' = r.ppu
                     /\ ret' = r.frame_complete
                     /\ fatal' = r.fatal
                     /\ frobs' = FrObserve(frobs, ppu, r.ppu, n, r.frame_complete, FALSE)
             IN  becomes(PPU_tick(ppu, n, build))
    /\ UNCHANGED <<joypad, bus, cpu, build, jpobs, cpuobs, memobs>>

NextSprite == SpriteTick

SpecSprite == InitSprite /\ [][NextSprite]_vars

\* C31 as stated: no tick ends in a panic of the sprite pattern fetch,
\* whatever OAM holds, with either sprite size and any flip setting, on the
\* scanlines -1 .. 239.
C31_AsStated == fatal = "none"

\* what the code does: a tick panics in the fetch only on scanline -1 or for
\* a vertically flipped sprite
C31_Faults ==
    fatal # "none" =>
        /\ ppu.cycles = 340 /\ Len(ppu.sprite_scanline) > 0
        /\ \/ ppu.scanline = -1
           \/ flip_vertical(ppu.sprite_scanline[1])

\* an 8x8 sprite flipped vertically, on a scanline below its first
C31_FlippedFault ==
    /\ fatal # "none" /\ ppu.scanline >= 0
    /\ ~contains(ppu.control, SPRITE_SIZE)
    /\ flip_vertical(ppu.sprite_scanline[1])

\* a sprite of scanline 239 fetched again on scanline -1
C31_PreRenderFault ==
    /\ fatal = "Unknown address" /\ ppu.scanline = -1
    /\ ~flip_vertical(ppu.sprite_scanline[1])

\* an 8x16 sprite flipped vertically panics with overflow checks only
C31_Flipped16 ==
    (fatal # "none" /\ contains(ppu.control, SPRITE_SIZE) /\ ppu.scanline >= 0) =>
        build /\ fatal = "attempt to subtract with overflow"

(***************************************************************************)
(* Calls, interrupts and status transfers of the standalone core.  A case  *)
(* is a core with pc, sp and status set (they are public fields) over a    *)
(* MockBus holding one of                                                  *)
(*   jsr: JSR target at pc and RTS at target,                              *)
(*   nmi: the NMI vector pointing at target and RTI at target,             *)
(*   php: PHP at pc,                                                       *)
(*   plp: PLP at pc and a byte on the stack.                               *)
(* The interrupt is one call of interrupt_nmi; everything else is tick.    *)
(* A JSR lies with its operand below $FFFF, the last byte a MockBus has,   *)
(* and does not name its own operand address (the case of C22).            *)
(***************************************************************************)
MaxReturnSteps == 10

ReturnPcs == {1536, 1790, 65532}
ReturnTargets == {1535, 1552, 32768}
ReturnPointers == {0, 1, 2, 253}
ReturnStatuses == {0, 36, 38, 52, 165, 255}
ReturnBytes == {0, 2, 36, 48, 207, 255}

ReturnCases ==
    {[kind |-> "jsr", pc |-> pc, target |-> target, sp |-> sp, status |-> 36, byte |-> 0] :
        pc \in ReturnPcs, target \in ReturnTargets, sp \in ReturnPointers}
    \cup
    {[kind |-> "nmi", pc |-> pc, target |-> target, sp |-> sp, status |-> status, byte |-> 0] :
        pc \in ReturnPcs, target \in {1535, 32768}, sp \in ReturnPointers,
        status \in ReturnStatuses}
    \cup
    {[kind |-> "php", pc |-> 1536, target |-> 0, sp |-> sp, status |-> status, byte |-> 0] :
        sp \in ReturnPointers, status \in ReturnStatuses}
    \cup
    {[kind |-> "plp", pc |-> 1536, target |-> 0, sp |-> sp, status |-> status, byte |-> byte] :
        sp \in ReturnPointers, status \in {36, 255}, byte \in ReturnBytes}

ReturnCase(c) ==
    LET lo == c.target % 256
        hi == c.target \div 256
        regs(k) == [k EXCEPT !.register = [@ EXCEPT !.pc = c.pc, !.sp = c.sp,
                                                     !.status = c.status]]
        image(k) ==
            CASE c.kind = "jsr" ->
                    Core_mem_write(Core_write_program(k, c.pc, <<32, lo, hi>>, 1), c.target, 96)
              [] c.kind = "nmi" ->
                    Core_mem_write(
                        Core_mem_write(
                            Core_mem_write(k, VECTOR_NMI_INTERRUPT_HANDLER, lo),
                            VECTOR_NMI_INTERRUPT_HANDLER + 1, hi),
                        c.target, 64)
              [] c.kind = "php" -> Core_mem_write(k, c.pc, 8)
              [] c.kind = "plp" ->
                    Core_mem_write(Core_mem_write(k, c.pc, 40),
                                   STACK + ((c.sp + 1) % U8), c.byte)
    IN  image(regs(Core_new))

\* the operations a case is made of
ReturnOps(c) == IF c.kind \in {"jsr", "nmi"} THEN 2 ELSE 1

InitReturn ==
    /\ joypad = Joypad_new
    /\ ppu = PPU_new_empty_rom
    /\ bus = Bus_new
    /\ build \in BOOLEAN
    /\ fatal = "none"
    /\ ret = 0
    /\ jpobs = JpObs0
    /\ frobs = FrObs0
    /\ memobs = MemObs0
    /\ \E c \in ReturnCases :
          /\ cpu = ReturnCase(c)
          /\ cpuobs = [c |-> c, n |-> 0, done |-> 0, first |-> ReturnCase(c)]

\* CPU::interrupt_nmi called on the core between two instructions
ReturnInterrupt ==
    /\ cpuobs.c.kind = "nmi"
    /\ cpuobs.done = 0
    /\ cpu' = Core_interrupt_nmi(cpu)
    /\ cpuobs' = [cpuobs EXCEPT !.n = @ + 1, !.done = 1, !.first = cpu']
    /\ UNCHANGED <<joypad, ppu, bus, build, fatal, ret, jpobs, frobs, memobs>>

\* CPU::tick: a stalled cycle, or the next instruction
ReturnTick ==
    /\ cpu.bus.fatal = "none"
    /\ cpuobs.c.kind = "nmi" => cpuobs.done >= 1
    /\ cpuobs.done < ReturnOps(cpuobs.c)
    /\ cpuobs.n < MaxReturnSteps
    /\ cpu' = Core_tick(cpu)
    /\ cpuobs' = [cpuobs EXCEPT
                     !.n = @ + 1,
                     !.done = IF cpu.cycles = 0 THEN @ + 1 ELSE @,
                     !.first = IF cpu.cycles = 0 /\ cpuobs.done = 0 THEN cpu' ELSE @]
    /\ UNCHANGED <<joypad, ppu, bus, build, fatal, ret, jpobs, frobs, memobs>>

NextReturn == ReturnInterrupt \/ ReturnTick

SpecReturn == InitReturn /\ [][NextReturn]_vars

\* the byte `below` bytes under the stack slot that sp named at the start
ReturnSlot(k, below) == Mem_get(k.bus.memory, STACK + ((cpuobs.c.sp - below) % U8))

\* C33: JSR leaves the address of its last operand byte on the stack, high
\* byte in the slot sp named and low byte in the one below, with sp two
\* lower and pc at the target; the RTS at the target then leaves pc at the
\* instruction after the JSR and sp at its value before the JSR.
C33_JsrRts ==
    cpuobs.c.kind = "jsr" =>
        /\ cpu.bus.fatal = "none"
        /\ cpuobs.done >= 1 =>
              /\ ReturnSlot(cpuobs.first, 0) = (cpuobs.c.pc + 2) \div 256
              /\ ReturnSlot(cpuobs.first, 1) = (cpuobs.c.pc + 2) % 256
              /\ cpuobs.first.register.sp = (cpuobs.c.sp - 2) % U8
              /\ cpuobs.first.register.pc = cpuobs.c.target
        /\ cpuobs.done = 2 =>
              /\ cpu.register.pc = cpuobs.c.pc + 3
              /\ cpu.register.sp = cpuobs.c.sp

\* a JSR whose operand crosses a page, with sp wrapping from $00, returned from
C33_Witness ==
    /\ cpuobs.c.kind = "jsr" /\ cpuobs.done = 2
    /\ cpuobs.c.pc = 1790 /\ cpuobs.c.sp = 0
    /\ cpuobs.first.register.sp = 254
    /\ cpu.register.pc = 1793

\* the six status bits that are neither break nor break2
ReturnFlags(status) == BitAnd(status, 207)

\* C34, the entry: interrupt_nmi pushes pc, high byte first, and then the
\* status with break cleared and break2 set, sets interrupt-disable in the
\* live status and nothing else, and loads pc from $FFFA-$FFFB.
C34_Entry ==
    (cpuobs.c.kind = "nmi" /\ cpuobs.done >= 1) =>
        /\ ReturnSlot(cpuobs.first, 0) = cpuobs.c.pc \div 256
        /\ ReturnSlot(cpuobs.first, 1) = cpuobs.c.pc % 256
        /\ ReturnSlot(cpuobs.first, 2) = set(set(cpuobs.c.status, BREAK, FALSE), BREAK2, TRUE)
        /\ cpuobs.first.register.sp = (cpuobs.c.sp - 3) % U8
        /\ cpuobs.first.register.status = BitOr(cpuobs.c.status, INTERRUPT_DISABLE)
        /\ cpuobs.first.register.pc = cpuobs.c.target

\* C34 as stated: after the RTI of the handler, pc, sp and every status bit
\* other than break and break2 are what they were just before the interrupt.
C34_AsStated ==
    (cpuobs.c.kind = "nmi" /\ cpuobs.done = 2) =>
        /\ cpu.register.pc = cpuobs.c.pc
        /\ cpu.register.sp = cpuobs.c.sp
        /\ ReturnFlags(cpu.register.status) = ReturnFlags(cpuobs.c.status)

\* what the code does: pc and sp are restored, and so is the status but for
\* the zero flag, which the write of the popped byte (never 0, break2 being
\* set in it) clears
C34_ZeroLost ==
    (cpuobs.c.kind = "nmi" /\ cpuobs.done = 2) =>
        /\ cpu.bus.fatal = "none"
        /\ cpu.register.pc = cpuobs.c.pc
        /\ cpu.register.sp = cpuobs.c.sp
        /\ cpu.register.status =
              set(set(set(cpuobs.c.status, BREAK, FALSE), BREAK2, TRUE), ZERO, FALSE)

\* an interrupt taken with the zero flag set and returned from
C34_ZeroSet ==
    /\ cpuobs.c.kind = "nmi" /\ cpuobs.done = 2
    /\ contains(cpuobs.c.status, ZERO)
    /\ ~contains(cpu.register.status, ZERO)

\* C35 as stated: PHP pushes the status with break and break2 set and leaves
\* the live status as it was; PLP leaves the status at the popped byte with
\* break cleared, break2 set and the other six bits as popped.
C35_AsStated ==
    /\ (cpuobs.c.kind = "php" /\ cpuobs.done = 1) =>
          /\ ReturnSlot(cpu, 0) = BitOr(cpuobs.c.status, 48)
          /\ cpu.register.status = cpuobs.c.status
    /\ (cpuobs.c.kind = "plp" /\ cpuobs.done = 1) =>
          cpu.register.status =
              set(set(cpuobs.c.byte, BREAK, FALSE), BREAK2, TRUE)

\* the PHP half holds, with sp one lower
C35_Php ==
    (cpuobs.c.kind = "php" /\ cpuobs.done = 1) =>
        /\ cpu.bus.fatal = "none"
        /\ ReturnSlot(cpu, 0) = BitOr(cpuobs.c.status, 48)
        /\ cpu.register.status = cpuobs.c.status
        /\ cpu.register.sp = (cpuobs.c.sp - 1) % U8

\* what PLP does: the zero flag is set by the popped byte being 0 and not by
\* its bit 1; the other bits are as stated
C35_PlpZero ==
    (cpuobs.c.kind = "plp" /\ cpuobs.done = 1) =>
        /\ cpu.bus.fatal = "none"
        /\ cpu.register.sp = (cpuobs.c.sp + 1) % U8
        /\ cpu.register.status =
              set(set(set(cpuobs.c.byte, ZERO, cpuobs.c.byte = 0), BREAK, FALSE),
                  BREAK2, TRUE)

\* PLP of $FF, the byte of test_0x28_plp_sets_correct_flags
C35_PlpAllSet ==
    /\ cpuobs.c.kind = "plp" /\ cpuobs.done = 1
    /\ cpuobs.c.byte = 255
    /\ cpu.register.status = 237

(***************************************************************************)
(* Indexed zero-page addressing.  The repository holds the address         *)
(* computation twice: get_absolute_address of the cpu6502 crate, and       *)
(* get_operand_address of the CPU of src/cpu.rs, whose memory is an array  *)
(* of $FFFF bytes like that of a MockBus.  One run is one computation for  *)
(* an operand byte at $0600, with A, X and Y drawn from IndexValues and    *)
(* byte i of the zero page holding i, so that the low byte of the address  *)
(* of Indirect,X is the pointer it was read from.                          *)
(***************************************************************************)
Main_get_operand_address(k, mode) ==
    LET pc == k.register.pc
        plus8(v, i) == [k |-> v.k, ret |-> (v.ret + i) % U8]
        plus16(v, i) == [k |-> v.k, ret |-> (v.ret + i) % U16]
        word(v) == Core_mem_read_u16(v.k, v.ret)
    IN  CASE mode = "Immediate" -> [k |-> k, ret |-> pc]
          [] mode = "ZeroPage" -> Core_mem_read(k, pc)
          [] mode = "Absolute" -> Core_mem_read_u16(k, pc)
          [] mode = "ZeroPage_X" ->
                plus8(Core_mem_read(k, pc), Register_read(k.register, "A"))
          [] mode = "ZeroPage_Y" ->
                plus8(Core_mem_read(k, pc), Register_read(k.register, "Y"))
          [] mode = "Absolute_X" ->
                plus16(Core_mem_read_u16(k, pc), Register_read(k.register, "X"))
          [] mode = "Absolute_Y" ->
                plus16(Core_mem_read_u16(k, pc), Register_read(k.register, "Y"))
          [] mode = "Indirect_X" ->
                word(plus8(Core_mem_read(k, pc), Register_read(k.register, "X")))
          [] mode = "Indirect_Y" ->
                plus16(word(Core_mem_read(k, pc)), Register_read(k.register, "Y"))
          [] OTHER -> [k |-> Core_panic(k, "mode not supported"), ret |-> 0]

MaxIndexOps == 1

IndexModes == {"ZeroPage_X", "ZeroPage_Y", "Indirect_X"}
IndexOperands == {0, 1, 16, 128, 255}
IndexValues == {0, 1, 128, 255}

\* byte i of the zero page holds i
ZeroPageImage == [a \in 1..255 |-> a]

IndexCase(operand, a, x, y) ==
    LET regs(k) == [k EXCEPT !.register = [@ EXCEPT !.a = a, !.x = x, !.y = y,
                                                     !.pc = ProgramBase]]
    IN  Core_mem_write(regs([Core_new EXCEPT !.bus.memory = ZeroPageImage]),
                       ProgramBase, operand)

InitIndex ==
    /\ joypad = Joypad_new
    /\ ppu = PPU_new_empty_rom
    /\ bus = Bus_new
    /\ build = FALSE
    /\ fatal = "none"
    /\ ret = 0
    /\ jpobs = JpObs0
    /\ frobs = FrObs0
    /\ memobs = MemObs0
    /\ \E mode \in IndexModes, operand \in IndexOperands,
          a \in IndexValues, x \in IndexValues, y \in IndexValues :
          /\ cpu = IndexCase(operand, a, x, y)
          /\ cpuobs = [mode |-> mode, operand |-> operand, a |-> a, x |-> x, y |-> y,
                       n |-> 0, by |-> "none"]

IndexBecomes(r, by) ==
    /\ cpu' = r.k
    /\ ret' = r.ret
    /\ cpuobs' = [cpuobs EXCEPT !.n = @ + 1, !.by = by]
    /\ UNCHANGED <<joypad, ppu, bus, build, fatal, jpobs, frobs, memobs>>

\* cpu6502: get_absolute_address(bus, mode, pc)
IndexCore ==
    /\ cpuobs.n < MaxIndexOps
    /\ IndexBecomes(Core_get_absolute_address(cpu, cpuobs.mode, cpu.register.pc), "cpu6502")

\* src/cpu.rs: get_operand_address(mode)
IndexMain ==
    /\ cpuobs.n < MaxIndexOps
    /\ IndexBecomes(Main_get_operand_address(cpu, cpuobs.mode), "main")

NextIndex == IndexCore \/ IndexMain

SpecIndex == InitIndex /\ [][NextIndex]_vars

\* the zero-page address of a computed address: the address itself, and for
\* Indirect,X the pointer, which is the low byte of the word read from it
IndexZeroPage == IF cpuobs.mode = "Indirect_X" THEN ret % U8 ELSE ret

\* C36 as stated: the zero-page address is (operand + X) mod 256 for
\* ZeroPage,X and for the pointer of Indirect,X, and (operand + Y) mod 256 for
\* ZeroPage,Y.
C36_AsStated ==
    cpuobs.n = 1 =>
        IndexZeroPage =
            (cpuobs.operand + (IF cpuobs.mode = "ZeroPage_Y" THEN cpuobs.y ELSE cpuobs.x)) % U8

\* it holds of the cpu6502 crate
C36_Core ==
    (cpuobs.n = 1 /\ cpuobs.by = "cpu6502") =>
        /\ cpu.bus.fatal = "none"
        /\ IndexZeroPage =
              (cpuobs.operand + (IF cpuobs.mode = "ZeroPage_Y" THEN cpuobs.y ELSE cpuobs.x)) % U8

\* the CPU of src/cpu.rs indexes ZeroPage,X by A; every address stays in the
\* zero page
C36_MainAccumulator ==
    (cpuobs.n = 1 /\ cpuobs.by = "main") =>
        /\ cpu.bus.fatal = "none"
        /\ IndexZeroPage \in 0..255
        /\ IndexZeroPage =
              (cpuobs.operand + (CASE cpuobs.mode = "ZeroPage_X" -> cpuobs.a
                                   [] cpuobs.mode = "ZeroPage_Y" -> cpuobs.y
                                   [] OTHER -> cpuobs.x)) % U8

\* ZeroPage,X of operand $10 with A = 1 and X = 128 in src/cpu.rs
C36_MainIndexedByA ==
    /\ cpuobs.n = 1 /\ cpuobs.by = "main" /\ cpuobs.mode = "ZeroPage_X"
    /\ cpuobs.operand = 16 /\ cpuobs.a = 1 /\ cpuobs.x = 128
    /\ ret = 17

(***************************************************************************)
(* Name-table mirroring.  One run is one use of the mapping for an address *)
(* of $2000-$3EFF on a PPU built with Horizontal or Vertical mirroring:    *)
(* mirror_vram_addr itself, or ppu_write, which stores a byte at the index *)
(* it returns.                                                             *)
(***************************************************************************)
MaxMirrorOps == 1

MirrorAddrs == 8192..16127          \* 0x2000..=0x3EFF
MirrorByte == 102                   \* 0x66

InitMirror ==
    /\ joypad = Joypad_new
    /\ bus = Bus_new
    /\ cpu = CPU_new
    /\ build = FALSE
    /\ fatal = "none"
    /\ ret = 0
    /\ jpobs = JpObs0
    /\ frobs = FrObs0
    /\ cpuobs = CpuObs0
    /\ \E mirroring \in {"Horizontal", "Vertical"}, addr \in MirrorAddrs :
          /\ ppu = PPU_new(ChrRomLen, mirroring)
          /\ memobs = [addr |-> addr, n |-> 0, op |-> "none"]

MirrorIndex ==
    /\ memobs.n < MaxMirrorOps
    /\ ret' = mirror_vram_addr(ppu, memobs.addr)
    /\ memobs' = [memobs EXCEPT !.n = @ + 1, !.op = "index"]
    /\ UNCHANGED <<joypad, ppu, bus, cpu, build, fatal, jpobs, frobs, cpuobs>>

MirrorWrite ==
    /\ memobs.n < MaxMirrorOps
    /\ LET becomes(r) ==
               /\ ppu' = r.ppu
               /\ fatal' = r.fatal
               /\ ret' = r.ret
       IN  becomes(ppu_write(ppu, memobs.addr, MirrorByte))
    /\ memobs' = [memobs EXCEPT !.n = @ + 1, !.op = "write"]
    /\ UNCHANGED <<joypad, bus, cpu, build, jpobs, frobs, cpuobs>>

NextMirror == MirrorIndex \/ MirrorWrite

SpecMirror == InitMirror /\ [][NextMirror]_vars

\* the logical name table of an address and its offset in the table
MirrorTable(addr) == ((addr - 8192) \div 1024) % 4
MirrorOffset(addr) == addr % 1024

\* the physical bank of a logical table: tables 0, 1 and 2, 3 paired with
\* Horizontal mirroring, tables 0, 2 and 1, 3 with Vertical
MirrorBank(mirroring, table) ==
    IF mirroring = "Horizontal" THEN table \div 2 ELSE table % 2

\* C37: the index of an address of $2000-$3EFF is within 0..2047, keeps the
\* offset within the 1 KiB table and lies in the bank its logical table is
\* paired into; a byte written through ppu_write lands at that index only.
C37_Mirroring ==
    LET index == MirrorBank(ppu.mirroring, MirrorTable(memobs.addr)) * 1024
                     + MirrorOffset(memobs.addr)
    IN  /\ fatal = "none"
        /\ memobs.op = "index" => (ret = index /\ ret \in 0..2047)
        /\ memobs.op = "write" => ppu.vram = Mem_set(ZeroMem, index, MirrorByte)

\* $2C05 with Horizontal mirroring: table 3, second bank, index $0405
C37_Witness ==
    /\ memobs.op = "index" /\ memobs.addr = 11269 /\ ppu.mirroring = "Horizontal"
    /\ ret = 1029

\* $3805, a mirror of $2805, written with Vertical mirroring: first bank
C37_WitnessWrite ==
    /\ memobs.op = "write" /\ memobs.addr = 14341 /\ ppu.mirroring = "Vertical"
    /\ Mem_get(ppu.vram, 5) = MirrorByte

(***************************************************************************)
(* Whole-word access to a LoopyRegister: set_bits of a 16-bit value,       *)
(* get_bits and set_unused, in any order, on a register that starts as     *)
(* new().  memobs keeps the last operation and the last arguments of       *)
(* set_bits and of set_unused.                                             *)
(***************************************************************************)
MaxLoopyOps == 6

LoopyValues ==
    {0, 1, 31, 32, 992, 1023, 1024, 2048, 4095, 4096, 8192, 28672, 32767,
     32768, 32769, 43981, 52651, 61440, 65535}

InitLoopy ==
    /\ joypad = Joypad_new
    /\ ppu = PPU_new_empty_rom
    /\ bus = Bus_new
    /\ cpu = CPU_new
    /\ build = FALSE
    /\ fatal = "none"
    /\ ret = 0
    /\ jpobs = JpObs0
    /\ frobs = FrObs0
    /\ cpuobs = CpuObs0
    /\ memobs = [value |-> 0, unused |-> 0, n |-> 0, op |-> "none"]

LoopySet ==
    /\ memobs.n < MaxLoopyOps
    /\ \E value \in LoopyValues :
          /\ ppu' = [ppu EXCEPT !.vram_addr = set_bits(@, value)]
          /\ memobs' = [memobs EXCEPT !.value = value, !.n = @ + 1,
                                      !.op = "set_bits"]
    /\ UNCHANGED <<joypad, bus, cpu, build, fatal, ret, jpobs, frobs, cpuobs>>

\* the arguments of test_set_unused, and 0 and $FFFF
LoopyUnusedValues == {0, 1, 2, 65535}

LoopySetUnused ==
    /\ memobs.n < MaxLoopyOps
    /\ \E value \in LoopyUnusedValues :
          /\ ppu' = [ppu EXCEPT !.vram_addr = set_unused(@, value)]
          /\ memobs' = [memobs EXCEPT !.unused = value, !.n = @ + 1,
                                      !.op = "set_unused"]
    /\ UNCHANGED <<joypad, bus, cpu, build, fatal, ret, jpobs, frobs, cpuobs>>

LoopyGet ==
    /\ memobs.n < MaxLoopyOps
    /\ ret' = get_bits(ppu.vram_addr)
    /\ memobs' = [memobs EXCEPT !.n = @ + 1, !.op = "get_bits"]
    /\ UNCHANGED <<joypad, ppu, bus, cpu, build, fatal, jpobs, frobs, cpuobs>>

NextLoopy == LoopySet \/ LoopySetUnused \/ LoopyGet

SpecLoopy == InitLoopy /\ [][NextLoopy]_vars

\* C38 as stated: get_bits after set_bits(v) returns v, for every 16-bit v.
C38_AsStated == memobs.op = "get_bits" => ret = memobs.value

\* what the code does: the five fields hold the low 15 bits of the value
\* last given to set_bits and get_bits returns them; the field `unused`, the
\* place of bit 15, holds bit 0 of the value last given to set_unused, and
\* is neither written by set_bits nor returned by get_bits
C38_FifteenBits ==
    /\ get_bits(ppu.vram_addr) = memobs.value % 32768
    /\ get_unused(ppu.vram_addr) = memobs.unused % 2
    /\ memobs.op = "get_bits" => ret = memobs.value % 32768

\* the value of test_set_bits: $ABCD comes back as $2BCD
C38_TestValue ==
    /\ memobs.op = "get_bits" /\ memobs.value = 43981
    /\ ret = 11213

\* the same with the field `unused` set before: set_unused($FFFF),
\* set_bits($ABCD), get_bits gives $2BCD and leaves unused = 1
C38_UnusedKept ==
    /\ memobs.op = "get_bits" /\ memobs.value = 43981 /\ memobs.unused = 65535
    /\ ret = 11213
    /\ ppu.vram_addr =
          [coarse_x |-> 13, coarse_y |-> 30, nametable_x |-> 0,
           nametable_y |-> 1, fine_y |-> 2, unused |-> 1]

(***************************************************************************)
(* The joypad's strobe and read index: a new joypad under any sequence of  *)
(* writes, reads and changes of the buttons A, B and Right.  memobs keeps  *)
(* the last operation, the byte written and the joypad as it was before.   *)
(* Nothing counts here: the joypad has finitely many states.               *)
(***************************************************************************)
StrobeButtons == {BUTTON_A, BUTTON_B, RIGHT}

InitStrobe ==
    /\ joypad = Joypad_new
    /\ ppu = PPU_new_empty_rom
    /\ bus = Bus_new
    /\ cpu = CPU_new
    /\ build = FALSE
    /\ fatal = "none"
    /\ ret = 0
    /\ jpobs = JpObs0
    /\ frobs = FrObs0
    /\ cpuobs = CpuObs0
    /\ memobs = [op |-> "new", data |-> 0, before |-> Joypad_new]

StrobeWrite ==
    /\ \E data \in JoypadWriteData :
          /\ joypad' = Joypad_write(joypad, data)
          /\ memobs' = [op |-> "write", data |-> data, before |-> joypad]
    /\ UNCHANGED <<ppu, bus, cpu, build, fatal, ret, jpobs, frobs, cpuobs>>

StrobeRead ==
    /\ LET becomes(r) ==
               /\ joypad' = r.joypad
               /\ ret' = r.ret
       IN  becomes(Joypad_read(joypad))
    /\ memobs' = [op |-> "read", data |-> 0, before |-> joypad]
    /\ UNCHANGED <<ppu, bus, cpu, build, fatal, jpobs, frobs, cpuobs>>

StrobePressed ==
    /\ \E button \in StrobeButtons :
          /\ joypad' = Joypad_set_pressed(joypad, button)
          /\ memobs' = [op |-> "set_pressed", data |-> button, before |-> joypad]
    /\ UNCHANGED <<ppu, bus, cpu, build, fatal, ret, jpobs, frobs, cpuobs>>

StrobeReleased ==
    /\ \E button \in StrobeButtons :
          /\ joypad' = Joypad_set_released(joypad, button)
          /\ memobs' = [op |-> "set_released", data |-> button, before |-> joypad]
    /\ UNCHANGED <<ppu, bus, cpu, build, fatal, ret, jpobs, frobs, cpuobs>>

NextStrobe == StrobeWrite \/ StrobeRead \/ StrobePressed \/ StrobeReleased

SpecStrobe == InitStrobe /\ [][NextStrobe]_vars

\* C39: a read made while the strobe is armed returns the state of button A
\* and leaves the read index alone; the read index is always within 0..8;
\* and an operation changes it only as a write with bit 0 set, to 0, or as a
\* read made while disarmed, by +1.
C39_StrobeIndex ==
    /\ joypad.button_index \in 0..8
    /\ (memobs.op = "read" /\ memobs.before.strobe) =>
          /\ ret = (IF is_pressed(memobs.before, BUTTON_A) THEN 1 ELSE 0)
          /\ joypad.button_index = memobs.before.button_index
          /\ joypad.button_index = 0
    /\ joypad.button_index # memobs.before.button_index =>
          \/ /\ memobs.op = "write" /\ memobs.data % 2 = 1
             /\ joypad.button_index = 0
          \/ /\ memobs.op = "read" /\ ~memobs.before.strobe
             /\ joypad.button_index = memobs.before.button_index + 1

\* button A read as pressed while armed, with Right pressed and B released
C39_Witness ==
    /\ memobs.op = "read" /\ memobs.before.strobe
    /\ is_pressed(joypad, BUTTON_A) /\ ret = 1
    /\ is_pressed(joypad, RIGHT) /\ ~is_pressed(joypad, BUTTON_B)

\* the read index at its end: the ninth read of a disarmed joypad
C39_WitnessEnd ==
    /\ memobs.op = "read" /\ ~memobs.before.strobe
    /\ memobs.before.button_index = 7 /\ joypad.button_index = 8

(***************************************************************************)
(* The lengths of the opcode table.  The bytes an addressing mode reads    *)
(* after the opcode are those get_absolute_address reads at pc: a word     *)
(* for the three Absolute modes, a byte for the others, and the byte at pc *)
(* itself for Immediate; Accumulator reads none.                           *)
(***************************************************************************)
OperandModes ==
    {"Immediate", "ZeroPage", "ZeroPage_X", "ZeroPage_Y", "Absolute", "Absolute_X",
     "Absolute_Y", "Indirect_X", "Indirect_Y", "Accumulator"}

OperandSize(mode) ==
    CASE mode \in {"Absolute", "Absolute_X", "Absolute_Y"} -> 2
      [] mode = "Accumulator" -> 0
      [] OTHER -> 1

\* the rows of the table whose length is 2 with a two-byte operand:
\* $9F AXA Absolute,Y, $AF LAX Absolute, $BF LAX Absolute,Y
ShortRows == {159, 175, 191}

\* C40 as stated (SpecOpcodes): the descriptor found for an opcode byte has
\* the length 1 + the operand size of its addressing mode.
C40_AsStated ==
    (memobs.lookups = 1 /\ ret # None) =>
        (ret[1].mode \in OperandModes => ret[1].len = 1 + OperandSize(ret[1].mode))

\* what the table holds: the lengths are as stated but for three rows
C40_ThreeRows ==
    (memobs.lookups = 1 /\ ret # None) =>
        /\ ret[1].code = memobs.code
        /\ ret[1].mode \in OperandModes =>
              ret[1].len = IF memobs.code \in ShortRows THEN 2
                           ELSE 1 + OperandSize(ret[1].mode)

\* the descriptor of $AF, LAX Absolute, looked up
C40_LaxAbsolute ==
    /\ memobs.lookups = 1 /\ memobs.code = 175
    /\ ret # None /\ ret[1].mode = "Absolute" /\ ret[1].len = 2

\* SpecCore: after an instruction that is not a jump or a call, pc is the
\* instruction's address + its length, which for the three short rows is the
\* address of the high byte of the operand
C40_NextOpcode ==
    (cpuobs.executed /\ CoreOp.mode \in OperandModes /\ CoreOp.instruction \notin {"JMP", "JSR"}) =>
        /\ cpuobs.pc_after = ProgramBase + CoreOp.len
        /\ cpuobs.code \notin ShortRows =>
              cpuobs.pc_after = ProgramBase + 1 + OperandSize(CoreOp.mode)
        /\ cpuobs.code \in ShortRows => cpuobs.pc_after = ProgramBase + 2

(***************************************************************************)
(* The frame handshake of src/main.rs.  Two threads and three unbounded    *)
(* channels (mpsc::channel): the main thread runs the emulation and, at    *)
(* every completed frame, the callback given to the bus; the render thread *)
(* runs the loop of create_render_thread.  Here                            *)
(*   cpu   is the emulation thread: at = 0 while it emulates, at = i while *)
(*         the callback is before step i of Callback_order, joined once    *)
(*         run has returned and main waits in render_thread.join();        *)
(*   frobs is the render thread: the step of Render_order it is before,    *)
(*         the snapshot it received and the events it collected;           *)
(*   bus   holds the three channels and the bank of Arc<RwLock<usize>>;    *)
(*   joypad is the joypad the callback updates;                            *)
(*   fatal is "exit" once process_input has called std::process::exit.     *)
(* send never blocks, recv blocks on an empty channel.  A snapshot, a      *)
(* debug message and a batch of input events are marked with the number of *)
(* the frame they belong to.                                               *)
(***************************************************************************)
MaxHandshakeFrames == 3

\* the callback with its receive before the debug message is sent
Callback_order_recv_first == <<"send_frame", "recv_joycon", "send_debug">>

Callback_order == <<"send_frame", "send_debug", "recv_joycon">>

Render_order == <<"recv_frame", "recv_debug", "process_input", "send_joycon">>

InputButton_Joypad(button) == [kind |-> "Joypad", button |-> button]
InputButton_Key(action) == [kind |-> "Key", action |-> action]

InputEvent_pressed(button) == [button |-> button, key_down |-> TRUE]
InputEvent_released(button) == [button |-> button, key_down |-> FALSE]

\* what process_input may return in one frame
InputBatches ==
    {<<>>,
     <<InputEvent_pressed(InputButton_Joypad(BUTTON_A))>>,
     <<InputEvent_released(InputButton_Joypad(BUTTON_A))>>,
     <<InputEvent_pressed(InputButton_Joypad(RIGHT)),
       InputEvent_released(InputButton_Key("FlipChrBank"))>>,
     <<InputEvent_pressed(InputButton_Key("FlipChrBank"))>>}

update_joypad_state(j, key_event) ==
    IF key_event.button.kind = "Joypad"
    THEN IF key_event.key_down
         THEN Joypad_set_pressed(j, key_event.button.button)
         ELSE Joypad_set_released(j, key_event.button.button)
    ELSE j

RECURSIVE update_joypad_states(_, _)
update_joypad_states(j, events) ==
    IF events = <<>> THEN j
    ELSE update_joypad_states(update_joypad_state(j, Head(events)), Tail(events))

\* the loop over key_events of the render thread: a released FlipChrBank
\* key flips the bank
RECURSIVE flip_banks(_, _)
flip_banks(bank, events) ==
    IF events = <<>> THEN bank
    ELSE LET key == Head(events)
             flips == /\ key.button.kind = "Key"
                      /\ ~key.key_down
                      /\ key.button.action = "FlipChrBank"
         IN  flip_banks(IF flips THEN 1 - bank ELSE bank, Tail(events))

InitHandshake ==
    /\ joypad = Joypad_new
    /\ ppu = PPU_new_empty_rom
    /\ bus = [tx_frame |-> <<>>, tx_debug |-> <<>>, tx_joycon |-> <<>>, bank |-> 0]
    /\ cpu = [at |-> 0, joined |-> FALSE, frames |-> 0,
              snapshot |-> [frame |-> 0, bank |-> 0], answered |-> 0]
    /\ build = FALSE
    /\ fatal = "none"
    /\ ret = 0
    /\ jpobs = JpObs0
    /\ frobs = [at |-> 1, frame |-> 0, events |-> <<>>, replied |-> 0]
    /\ cpuobs = CpuObs0
    /\ memobs = MemObs0

EmuRunning == fatal = "none" /\ ~cpu.joined

\* the emulation completes a frame: the bus calls the callback, which
\* builds the snapshot, reading the bank
EmuFrame ==
    /\ EmuRunning /\ cpu.at = 0
    /\ cpu.frames < MaxHandshakeFrames
    /\ cpu' = [cpu EXCEPT !.at = 1, !.frames = @ + 1,
                          !.snapshot = [frame |-> cpu.frames + 1, bank |-> bus.bank]]
    /\ UNCHANGED <<joypad, ppu, bus, build, fatal, ret, jpobs, frobs, cpuobs, memobs>>

\* the program ends (BRK): run returns and main joins the render thread
EmuReturn ==
    /\ EmuRunning /\ cpu.at = 0
    /\ cpu' = [cpu EXCEPT !.joined = TRUE]
    /\ UNCHANGED <<joypad, ppu, bus, build, fatal, ret, jpobs, frobs, cpuobs, memobs>>

EmuAt(step) == EmuRunning /\ cpu.at \in 1..3 /\ Callback_order[cpu.at] = step

EmuAdvance == IF cpu.at = 3 THEN 0 ELSE cpu.at + 1

EmuSendFrame ==
    /\ EmuAt("send_frame")
    /\ bus' = [bus EXCEPT !.tx_frame = Append(@, cpu.snapshot)]
    /\ cpu' = [cpu EXCEPT !.at = EmuAdvance]
    /\ UNCHANGED <<joypad, ppu, build, fatal, ret, jpobs, frobs, cpuobs, memobs>>

EmuSendDebug ==
    /\ EmuAt("send_debug")
    /\ bus' = [bus EXCEPT !.tx_debug = Append(@, cpu.frames)]
    /\ cpu' = [cpu EXCEPT !.at = EmuAdvance]
    /\ UNCHANGED <<joypad, ppu, build, fatal, ret, jpobs, frobs, cpuobs, memobs>>

\* rx_joycon.recv() and the loop over the events received
EmuRecvJoycon ==
    /\ EmuAt("recv_joycon")
    /\ bus.tx_joycon # <<>>
    /\ bus' = [bus EXCEPT !.tx_joycon = Tail(@)]
    /\ joypad' = update_joypad_states(joypad, Head(bus.tx_joycon).events)
    /\ cpu' = [cpu EXCEPT !.at = EmuAdvance, !.answered = Head(bus.tx_joycon).frame]
    /\ UNCHANGED <<ppu, build, fatal, ret, jpobs, frobs, cpuobs, memobs>>

RenderAt(step) == fatal = "none" /\ Render_order[frobs.at] = step

RenderAdvance == IF frobs.at = 4 THEN 1 ELSE frobs.at + 1

RenderRecvFrame ==
    /\ RenderAt("recv_frame")
    /\ bus.tx_frame # <<>>
    /\ bus' = [bus EXCEPT !.tx_frame = Tail(@)]
    /\ frobs' = [frobs EXCEPT !.at = RenderAdvance, !.frame = Head(bus.tx_frame).frame]
    /\ UNCHANGED <<joypad, ppu, cpu, build, fatal, ret, jpobs, cpuobs, memobs>>

RenderRecvDebug ==
    /\ RenderAt("recv_debug")
    /\ bus.tx_debug # <<>>
    /\ bus' = [bus EXCEPT !.tx_debug = Tail(@)]
    /\ frobs' = [frobs EXCEPT !.at = RenderAdvance]
    /\ UNCHANGED <<joypad, ppu, cpu, build, fatal, ret, jpobs, cpuobs, memobs>>

\* the textures are drawn, the canvas presented and the input processed
RenderInput ==
    /\ RenderAt("process_input")
    /\ \E key_events \in InputBatches :
          /\ bus' = [bus EXCEPT !.bank = flip_banks(@, key_events)]
          /\ frobs' = [frobs EXCEPT !.at = RenderAdvance, !.events = key_events]
    /\ UNCHANGED <<joypad, ppu, cpu, build, fatal, ret, jpobs, cpuobs, memobs>>

\* Event::Quit or Escape in process_input: std::process::exit(0)
RenderExit ==
    /\ RenderAt("process_input")
    /\ fatal' = "exit"
    /\ UNCHANGED <<joypad, ppu, bus, cpu, build, ret, jpobs, frobs, cpuobs, memobs>>

RenderSendJoycon ==
    /\ RenderAt("send_joycon")
    /\ bus' = [bus EXCEPT
                  !.tx_joycon = Append(@, [frame |-> frobs.frame, events |-> frobs.events])]
    /\ frobs' = [frobs EXCEPT !.at = RenderAdvance, !.events = <<>>, !.replied = @ + 1]
    /\ UNCHANGED <<joypad, ppu, cpu, build, fatal, ret, jpobs, cpuobs, memobs>>

NextHandshake ==
    \/ EmuFrame
    \/ EmuReturn
    \/ EmuSendFrame
    \/ EmuSendDebug
    \/ EmuRecvJoycon
    \/ RenderRecvFrame
    \/ RenderRecvDebug
    \/ RenderInput
    \/ RenderExit
    \/ RenderSendJoycon

SpecHandshake == InitHandshake /\ [][NextHandshake]_vars

\* a step of either thread but the completion of a frame, which waits for
\* nothing but the emulation itself
HandshakeStep ==
    \/ EmuSendFrame
    \/ EmuSendDebug
    \/ EmuRecvJoycon
    \/ RenderRecvFrame
    \/ RenderRecvDebug
    \/ RenderInput
    \/ RenderSendJoycon

\* C32: no channel ever holds more than one message; the emulation runs
\* only when the render thread has answered every frame sent and waits for
\* the next one; the render thread works on a frame only while the callback
\* of that frame has not returned; the events the callback receives are
\* those collected for its frame; and while the emulation is in its run
\* loop and the process has not exited, a callback in progress never leaves
\* both threads blocked.
C32_Handshake ==
    /\ Len(bus.tx_frame) <= 1 /\ Len(bus.tx_debug) <= 1 /\ Len(bus.tx_joycon) <= 1
    /\ cpu.frames - frobs.replied \in {0, 1}
    /\ cpu.at = 0 =>
          /\ frobs.replied = cpu.frames /\ cpu.answered = cpu.frames
          /\ bus.tx_frame = <<>> /\ bus.tx_debug = <<>> /\ bus.tx_joycon = <<>>
    /\ frobs.at # 1 => (cpu.at \in 2..3 /\ frobs.frame = cpu.frames)
    /\ bus.tx_frame # <<>> => Head(bus.tx_frame).frame = cpu.frames
    /\ bus.tx_joycon # <<>> => Head(bus.tx_joycon).frame = cpu.frames
    /\ (EmuRunning /\ cpu.at # 0) => ENABLED HandshakeStep

\* the third frame answered with the press of Right and the bank flipped
C32_Witness ==
    /\ cpu.at = 0 /\ cpu.frames = 3 /\ cpu.answered = 3 /\ frobs.replied = 3
    /\ is_pressed(joypad, RIGHT) /\ bus.bank = 1

\* the render thread waiting for the debug message of a frame it has taken,
\* before the callback has sent it
C32_WitnessWaiting ==
    /\ fatal = "none" /\ Render_order[frobs.at] = "recv_debug"
    /\ bus.tx_debug = <<>> /\ cpu.at = 2

\* both threads are scheduled: a step that a thread can take is taken
SpecHandshakeFair == SpecHandshake /\ WF_vars(HandshakeStep)

\* C32, progress: a callback that has started returns to the emulation with
\* its frame answered, unless the process exits first
C32_Answered ==
    (cpu.at = 1) ~> ((cpu.at = 0 /\ cpu.answered = cpu.frames) \/ fatal = "exit")

====
